---- MODULE Spec2Model ----
(***************************************************************************)
(* A model of the SeisFlows3 lifecycle controller (src/seisflows3/         *)
(* seisflows.py): the parameter file, the working directory, the pickled   *)
(* state of the modules under output/, and the commands submit, resume,    *)
(* clean and par, together with the stage driver and the checkpoint store  *)
(* they hand off to.                                                       *)
(***************************************************************************)
EXTENDS Integers, Sequences, FiniteSets, TLC

(***************************************************************************)
(* Bounds of the model.                                                    *)
(***************************************************************************)
\* number of stages of the workflow's flow
FlowLen == 3
\* number of commands the operator issues in one behaviour
MaxCmds == 3

(***************************************************************************)
(* Names.                                                                  *)
(***************************************************************************)
\* the module slots, in the order in which they are loaded
NAMES == <<"system", "solver", "workflow">>

Slots == {NAMES[i] : i \in 1..Len(NAMES)}

Stages == 1..FlowLen

\* An entry of the working directory is named by a pair <<stem, rest>>, the
\* name being the concatenation of the two.
LogsDir == <<"logs", "">>
OutputDir == <<"output", "">>
LogFile == <<"output", "_log.txt">>
StatsDir == <<"stats", "">>
ScratchDir == <<"scratch", "">>
SourceCode == <<"source_code", "">>

\* the parameter file names the operator may pass with -p
ParNames ==
  {<<"parameters.yaml", "">>, <<"output", "_pars.yaml">>,
   <<"output", "_parameters.yaml">>}

EntryNames ==
  {LogsDir, OutputDir, LogFile, StatsDir, ScratchDir, SourceCode} \cup ParNames

\* the kinds of an entry: absent, a regular file, a directory, a symbolic link
Kinds == {"none", "file", "dir", "link"}


(***************************************************************************)
(* Component state and its serialized form.                                *)
(***************************************************************************)
\* A component instance: live is the last stage that changed it; for the
\* workflow component pos is the stage cursor (the last completed stage, 0
\* for none) and done the stages completed in this registry's history.
NewComp == [live |-> 0, pos |-> 0, done |-> {}]

\* a slot of sys.modules: empty, or holding one instance
NoModule == [has |-> FALSE, obj |-> NewComp]

Module(c) == [has |-> TRUE, obj |-> c]

\* a state file output/seisflows_{NAME}.p: absent, partially written, or a
\* complete pickle of an instance of the slot's class
NoBlob == [tag |-> "absent", cls |-> "", obj |-> NewComp]

PartialBlob == [tag |-> "partial", cls |-> "", obj |-> NewComp]

saveobj(c, NAME) == [tag |-> "pickle", cls |-> NAME, obj |-> c]

loadobj(b) == b.obj

\* the slot whose instance stage i changes: the slots before the last one
\* (workflow) in turn
Target(i) == NAMES[((i - 1) % (Len(NAMES) - 1)) + 1]

\* the stages a..b in flow order
Range(a, b) == [i \in 1..(IF b >= a THEN b - a + 1 ELSE 0) |-> a + i - 1]

IsPrefix(s, t) == Len(s) <= Len(t) /\ \A i \in 1..Len(s) : s[i] = t[i]

(***************************************************************************)
(* The parameter file.                                                     *)
(***************************************************************************)
\* the value of a line of the parameter file: NoLine when the file has no
\* such line, 0 for an empty value, otherwise the name of a stage
NoLine == 0 - 1

ParVals == {NoLine} \cup {0} \cup Stages

\* the paths submit requires to exist when they are given
REQ_PATHS ==
  <<"SPECFEM_BIN", "SPECFEM_DATA", "MODEL_INIT", "MODEL_TRUE", "DATA",
    "LOCAL", "MASK">>

ReqKeys == {REQ_PATHS[i] : i \in 1..Len(REQ_PATHS)}

\* an entry of PATHS: the key is absent, its value is null, or its value is
\* a path that exists on disk or is missing from it
PathKinds == {"absent", "null", "exists", "missing"}

\* PATHS with none of the required paths
NoPaths == [k \in ReqKeys |-> "absent"]

\* the parameter file does not exist
NoFile ==
  [exists |-> FALSE, RESUME_FROM |-> NoLine, STOP_AFTER |-> NoLine,
   PATHS |-> NoPaths]

\* the file after configure, with every parameter of the modules
ConfiguredFile ==
  [exists |-> TRUE, RESUME_FROM |-> 0, STOP_AFTER |-> 0, PATHS |-> NoPaths]

\* the blank template copied by setup: module choices only
BlankFile ==
  [exists |-> TRUE, RESUME_FROM |-> NoLine, STOP_AFTER |-> NoLine,
   PATHS |-> NoPaths]

\* the value None of an optional command-line argument
None == 0 - 2

VARIABLES
  parname,   \* the name of the parameter file (-p)
  parfile,   \* the content of the parameter file
  fs,        \* the kind of every entry of the working directory
  disk,      \* the state file of every slot, at its final location
  tmp,       \* the temporary file of every slot that the checkpoint in
             \* progress is writing: "none", "partial", "flushed"
  pc,        \* where the orchestrating process is: "idle" when there is none
  mem,       \* sys.modules of the process: the registry
  cur,       \* the stage that is executing or was the last to return
  run,       \* what the last handoff to the stage driver was given
  executed,  \* the stages started since the last handoff, in order
  saved,     \* the slots renamed into place by the checkpoint in progress
  slot,      \* the slot whose state file is being written, "" for none
  state,     \* the lifecycle state
  res,       \* how the last command ended
  lastGood,  \* the registry saved by the last checkpoint that completed
  dirty,     \* a later checkpoint renamed a blob and did not complete
  skipped,   \* a run started past the stage after the cursor it was given
  ncmd,      \* the number of commands issued
  required,  \* what the component of every slot declares to require
  supplied,  \* what the parameter file gives for the key of every slot
  manifest,  \* .required.parameters of the component of every slot: its
             \* keys with their defaults, in the order it declares them
  text,      \* the lines configure has appended to the parameter file
  rendered,  \* the runs of configure so far: the lines the file began
             \* with, the path requirements read, the lines appended, and
             \* the number of commands issued before the run
  second,    \* another orchestrating process on the same working
             \* directory: where it is, its cursor, its registry, the
             \* stages it has started and the stage it stops after
  pool,      \* rotate_ne_traces_to_rt of the preprocess component: where
             \* the call is, the traces to rotate, the workers of its
             \* executor and the futures of the tasks submitted
  precheck,  \* what the precheck of _register meets: PRECHECK of the
             \* parameter file, the --force flag of the command line and
             \* the operator's answer to the prompt
  backup,    \* the temporary copy configure makes of the parameter file,
             \* named as the file with a dot before it: whether it is
             \* there, and the lines it holds
  solver     \* the Specfem3D component in its working directory: the keys
             \* of PAR and its FORMAT, how the check of the base class
             \* and its own ended, the operation that is running and the
             \* statement it is at, the Par_file, what SEM is, and the
             \* executables launched with what they found

\* what no lifecycle command changes: the name of the parameter file, the
\* requirements the components declare and the values the operator wrote
fixed == <<parname, required, supplied, manifest, precheck>>

\* what is apart from the process of a command: a process another
\* invocation has started, and the worker pool of a stage
apart == <<second, pool, backup, solver>>

\* what no command but setup and configure changes
given == <<fixed, apart, text, rendered>>

vars ==
  <<parname, parfile, fs, disk, tmp, pc, mem, cur, run, executed, saved,
    slot, state, res, lastGood, dirty, skipped, ncmd, required, supplied,
    manifest, text, rendered, second, pool, precheck, backup,
    solver>>

\* the result of a command: how it ended, the exit status of the process,
\* the stage that was executing when it ended (0: none), with a stage the
\* RESUME_FROM the run was registered with, for a clean issued right after
\* a clean how that one ended, the category of the error the command ended
\* with and what the error names, and what the command did to the registry
\* and printed, in order
Result(cmd, how, code, stage) ==
  [cmd |-> cmd, how |-> how, code |-> code, stage |-> stage,
   rf |-> IF stage > 0 THEN run.rf ELSE 0,
   prev |-> IF cmd = "clean" /\ res.cmd = "clean" THEN res.how ELSE "",
   why |-> "", named |-> "", events |-> <<>>]

\* the result of a command that ends with an error before it hands off
Fatal(cmd, why, named, code, events) ==
  [Result(cmd, "exit", code, 0) EXCEPT !.why = why, !.named = named,
                                       !.events = events]

\* What a handoff to the stage driver was given: the command and its
\* arguments stop_after and resume_from, the stage the driver starts at, the
\* stage it stops after (0: none), the cursor of the checkpoint on disk at
\* the handoff (0: none), RESUME_FROM and STOP_AFTER of the registered
\* parameters.
NoRun ==
  [cmd |-> "none", stop_after |-> None, resume_from |-> None, start |-> 0,
   stop |-> 0, loaded |-> 0, rf |-> 0, sa |-> 0]

\* sys.modules with no module registered
NoRegistry == [s \in Slots |-> NoModule]

NoCkpt == [s \in Slots |-> NoBlob]


\* a loop of par that finds every key in a file that is there
ParFoundAny(f, parameter) == f.exists

(***************************************************************************)
(* SeisFlows.par: view or edit a line of the parameter file.               *)
(***************************************************************************)
\* the first non-comment line whose key is the parameter exists
ParFound(f, parameter) == f.exists /\ f[parameter] # NoLine

\* par that prints the line it finds and never rewrites it
ParView(f, parameter, value) == f

\* the parameter file after par(parameter, value): the line is rewritten only
\* when it is found and a value is given
ParEdit(f, parameter, value) ==
  IF ParFound(f, parameter) /\ value # None
  THEN [f EXCEPT ![parameter] = value]
  ELSE f

(***************************************************************************)
(* SeisFlows.clean.                                                        *)
(***************************************************************************)
\* glob of a literal name: the entry itself when it exists
GlobName(n) == IF fs[n] # "none" THEN <<n>> ELSE <<>>

\* the entries matched by output*: those whose name begins with "output"
GlobOutput == {n \in EntryNames : n[1] = "output" /\ fs[n] # "none"}

\* the orders in which glob may return a set of entries
Orders(S) ==
  {q \in [1..Cardinality(S) -> S] : \A i, j \in 1..Cardinality(S) :
     q[i] = q[j] => i = j}

\* delete = ["logs", "output*", "stats", "scratch"], each globbed in turn
CleanTargets(order) ==
  GlobName(LogsDir) \o order \o GlobName(StatsDir) \o GlobName(ScratchDir)

\* the two safeguards of the loop: "parameters.yaml" not in fid, and fid is
\* no symbolic link
HasParametersYaml(n) == n[1] = "parameters.yaml" \/ n[2] = "_parameters.yaml"

SafeguardsPass(n) == ~HasParametersYaml(n) /\ fs[n] # "link"

\* the place of the first entry that fails a safeguard, Len + 1 when none does
FirstUnsafe(seq) ==
  IF \E i \in 1..Len(seq) : ~SafeguardsPass(seq[i])
  THEN CHOOSE i \in 1..Len(seq) :
         /\ ~SafeguardsPass(seq[i])
         /\ \A j \in 1..(i - 1) : SafeguardsPass(seq[j])
  ELSE Len(seq) + 1

\* a loop that is left after its first removal
RmFirst(seq, k) ==
  [n \in EntryNames |-> IF k >= 1 /\ seq[1] = n THEN "none" ELSE fs[n]]

\* unix.rm of the first k entries of seq
RmAll(seq, k) ==
  [n \in EntryNames |-> IF \E i \in 1..k : seq[i] = n THEN "none" ELSE fs[n]]

\* the positions of restart between its two calls: clean has returned and
\* submit is to be called, with or without --force
RestartPcs == {"restart", "restart -f"}

\* clean(force) called by command cmd, the prompt answered with answer, glob
\* returning the output* entries in the given order, and the process killed
\* after kill removals (kill = number of targets: not killed); when clean
\* returns the command goes on at position to
CleanRun(cmd, to, force, answer, order, kill) ==
  LET check == IF force THEN "y" ELSE answer
      seq == CleanTargets(order)
      bad == FirstUnsafe(seq)
      k == IF bad - 1 < kill THEN bad - 1 ELSE kill
      how == IF check # "y" THEN "declined"
             ELSE IF bad <= Len(seq) /\ bad - 1 <= kill THEN "AssertionError"
             ELSE IF kill < Len(seq) THEN "killed"
             ELSE "completed"
      after == IF check = "y" THEN RmAll(seq, k) ELSE fs
  IN /\ pc = "idle" /\ ncmd < MaxCmds
     /\ fs' = after
     /\ parfile' = IF after[parname] = "none" THEN NoFile ELSE parfile
     /\ disk' = IF after[OutputDir] = "none" THEN NoCkpt ELSE disk
     /\ tmp' = IF after[OutputDir] = "none" THEN [s \in Slots |-> "none"]
               ELSE tmp
     /\ lastGood' = IF after[OutputDir] = "none" THEN NoRegistry ELSE lastGood
     /\ dirty' = IF after[OutputDir] = "none" THEN FALSE ELSE dirty
     /\ skipped' = IF after[OutputDir] = "none" THEN FALSE ELSE skipped
     /\ res' = Result(cmd, how,
                      IF how \in {"completed", "declined"} THEN 0 ELSE 1, 0)
     /\ ncmd' = ncmd + 1
     /\ state' = IF how = "completed" THEN "Uninitialized" ELSE state
     /\ pc' = IF how \in {"completed", "declined"} THEN to ELSE "idle"
     /\ UNCHANGED <<given, mem, cur, run, executed, saved, slot>>

\* seisflows clean [-f]
clean(force, answer, order, kill) ==
  CleanRun("clean", "idle", force, answer, order, kill)

\* seisflows clean [-f], the process running to its end
Clean ==
  \E force \in BOOLEAN, answer \in {"y", "n"}, order \in Orders(GlobOutput) :
    clean(force, answer, order, Len(CleanTargets(order)))

\* seisflows clean [-f], the process killed before its end
CleanKilled ==
  \E force \in BOOLEAN, answer \in {"y", "n"}, order \in Orders(GlobOutput) :
    \E kill \in 0..(Len(CleanTargets(order)) - 1) :
      clean(force, answer, order, kill)


(***************************************************************************)
(* The command par, and the overrides of submit and resume.                *)
(***************************************************************************)
\* seisflows par PARAMETER [VALUE]
Par ==
  \E parameter \in {"RESUME_FROM", "STOP_AFTER"},
     value \in {None, 0} \cup Stages :
    /\ pc = "idle" /\ ncmd < MaxCmds
    /\ parfile' = ParEdit(parfile, parameter, value)
    /\ res' = IF ParFound(parfile, parameter)
              THEN Result("par", "completed", 0, 0)
              ELSE Result("par", "exit", 1, 0)
    /\ ncmd' = ncmd + 1
    /\ UNCHANGED <<given, fs, disk, tmp, pc, mem, cur, run, executed, saved,
                   slot, state, lastGood, dirty, skipped>>

\* The par calls that open submit and resume, in order: each is a pair of a
\* parameter and a value, made only when the value is not None. The result is
\* the file after the calls that ran and whether all of them found their line.
Overrides(f, calls) ==
  LET made == SelectSeq(calls, LAMBDA c : c[2] # None)
      Apply[i \in 0..Len(made)] ==
        IF i = 0 THEN [file |-> f, ok |-> TRUE]
        ELSE IF ~Apply[i - 1].ok THEN Apply[i - 1]
        ELSE [file |-> ParEdit(Apply[i - 1].file, made[i][1], made[i][2]),
              ok |-> ParFound(Apply[i - 1].file, made[i][1])]
  IN Apply[Len(made)]

(***************************************************************************)
(* The handoff system.submit(workflow) and the stage driver.               *)
(***************************************************************************)
\* the working directory with the entry n created as kind k when absent
Mk(d, n, k) == [d EXCEPT ![n] = IF @ = "none" THEN k ELSE @]

\* _config_logging: the file handler creates the log file
ConfigLogging(d) == Mk(d, LogFile, "file")

\* the stage the driver starts at: RESUME_FROM of the registered parameters
\* when it is set, otherwise the stage after the cursor of the registry
StartStage(f, m) ==
  IF f.RESUME_FROM > 0 THEN f.RESUME_FROM ELSE m["workflow"].obj.pos + 1

\* a name that is not the name of a stage of the flow
NoStage == FlowLen + 1

\* the names RESUME_FROM and STOP_AFTER may be given: par takes any value
StageNames == Stages \cup {NoStage}

\* a driver that takes any name for a bound
AnyBounds(f) == TRUE

\* RESUME_FROM and STOP_AFTER, when set, name stages of the flow
ValidBounds(f) ==
  /\ f.RESUME_FROM > 0 => f.RESUME_FROM \in Stages
  /\ f.STOP_AFTER > 0 => f.STOP_AFTER \in Stages

\* system.submit(workflow) with registry m under the registered parameters
\* f: the driver rejects a bound that names no stage before any stage
SystemSubmit(cmd, stop_after, resume_from, m, f, d, events) ==
  LET start == StartStage(f, m)
      wf == m["workflow"].obj
  IN /\ fs' = Mk(Mk(Mk(d, OutputDir, "dir"), ScratchDir, "dir"), LogsDir, "dir")
     /\ IF ~ValidBounds(f)
        THEN /\ pc' = "idle"
             /\ res' = Fatal(cmd, "InvalidStage", "", 255, events)
             /\ UNCHANGED <<mem, cur, run, executed, saved, slot, state,
                            skipped>>
        ELSE /\ pc' = "save"
             /\ mem' = m
             /\ skipped' = (skipped \/ start > wf.pos + 1)
             /\ cur' = start - 1
             /\ executed' = <<>>
             /\ saved' = {}
             /\ slot' = ""
             /\ state' = "Running"
             /\ run' = [cmd |-> cmd, stop_after |-> stop_after,
                        resume_from |-> resume_from, start |-> start,
                        stop |-> IF f.STOP_AFTER > 0 THEN f.STOP_AFTER ELSE 0,
                        loaded |-> disk["workflow"].obj.pos,
                        rf |-> f.RESUME_FROM, sa |-> f.STOP_AFTER]
             /\ res' = [Result(cmd, "running", 0, 0) EXCEPT
                          !.events = events]

\* a command that ends before the handoff, with result r
Exit(r, f, d) ==
  /\ parfile' = f
  /\ fs' = d
  /\ res' = r
  /\ pc' = "idle"
  /\ UNCHANGED <<mem, cur, run, executed, saved, slot, state, skipped>>

\* the error par ends with on file f: the file does not exist, or it has no
\* line of the parameter
ParError(f) == IF f.exists THEN "parameter not found" ELSE "parameter file"

\* init_seisflows: a new instance in every slot
init_seisflows == [s \in Slots |-> Module(NewComp)]

\* what init_seisflows does to the registry: every slot gets a new instance
NewEvents == [i \in 1..Len(NAMES) |-> <<"new", NAMES[i]>>]

\* paths_dont_exist after the first n keys of REQ_PATHS: the keys in PATHS
\* whose value is given and is no path on disk
RECURSIVE PathsDontExist(_, _)
PathsDontExist(paths, n) ==
  IF n = 0 THEN <<>>
  ELSE LET key == REQ_PATHS[n]
           before == PathsDontExist(paths, n - 1)
       IN IF paths[key] # "absent" /\ paths[key] \notin {"null", "exists"}
          THEN Append(before, key)
          ELSE before

\* a test of the required paths that stops at the first one not existing
paths_first_missing(f) ==
  LET all == PathsDontExist(f.PATHS, Len(REQ_PATHS))
  IN IF all = <<>> THEN <<>> ELSE <<all[1]>>

\* the required paths of file f that submit prints as not existing
paths_dont_exist(f) == PathsDontExist(f.PATHS, Len(REQ_PATHS))

\* a submit that leaves RESUME_FROM as the parameter file has it
SubmitCallsStopAfter(stop_after) == <<<<"STOP_AFTER", stop_after>>>>

\* the par calls that open submit: RESUME_FROM is emptied, and STOP_AFTER
\* is set when the command line gives it
SubmitCalls(stop_after) ==
  <<<<"RESUME_FROM", 0>>, <<"STOP_AFTER", stop_after>>>>

\* what the par calls of a command rewrote from file f to file g: the line
\* RESUME_FROM, when it named a stage and is empty now
Rewritten(f, g) ==
  IF f.RESUME_FROM > 0 /\ g.RESUME_FROM = 0
  THEN <<<<"par", "RESUME_FROM">>>> ELSE <<>>

\* a precheck that goes on unless the answer is n
GateUnlessNo(force, PRECHECK, check) ==
  force \/ PRECHECK = <<>> \/ check # "n"

\* the precheck of _register(force): without force and with a PRECHECK that
\* is not empty the parameters are printed and the command goes on only on
\* the answer y
Gate(force, PRECHECK, check) == force \/ PRECHECK = <<>> \/ check = "y"

\* submit(stop_after, force): gate is whether the precheck of _register lets
\* the command through, pathsok whether every required path given exists
SubmitRun(cmd, stop_after, gate, pathsok) ==
  LET o == Overrides(parfile, SubmitCalls(stop_after))
      f == o.file
  IN /\ UNCHANGED <<given, disk, tmp, lastGood, dirty>>
     /\ IF ~o.ok
        THEN Exit(Fatal(cmd, ParError(parfile), "", 1, <<>>), f, fs)
        ELSE IF ~gate
        THEN Exit(Fatal(cmd, "declined", "", 255, <<>>), f, fs)
        ELSE IF ~pathsok
        THEN Exit(Fatal(cmd, "paths", "", 0,
                        [i \in 1..Len(paths_dont_exist(f)) |->
                           <<"print", paths_dont_exist(f)[i]>>]),
                  f, ConfigLogging(fs))
        ELSE /\ parfile' = f
             /\ SystemSubmit(cmd, stop_after, None, init_seisflows, f,
                             ConfigLogging(fs), Rewritten(parfile, f) \o NewEvents)

\* seisflows submit [-f] [--stop_after STAGE]
submit(stop_after, gate, pathsok) ==
  /\ pc = "idle" /\ ncmd < MaxCmds
  /\ ncmd' = ncmd + 1
  /\ SubmitRun("submit", stop_after, gate, pathsok)

\* the runs of submit: the required paths are those of the parameter file
Submit ==
  \E stop_after \in {None} \cup Stages, gate \in BOOLEAN :
    submit(stop_after, gate, paths_dont_exist(parfile) = <<>>)


(***************************************************************************)
(* SeisFlows._load_modules and SeisFlows.resume.                           *)
(***************************************************************************)
\* a state file is not found: the command exits, naming the first such file
StateFileMissing(d) == \E s \in Slots : d[s].tag = "absent"

\* a state file that pickle cannot load
Unloadable(d) == \E s \in Slots : d[s].tag = "partial"

\* a load that instantiates every module anew instead of unpickling it
LoadModulesAnew(d) == [s \in Slots |-> Module(NewComp)]

\* a load that unpickles every module but the last of NAMES
LoadModulesButLast(d) ==
  [s \in Slots |-> IF s = NAMES[Len(NAMES)] THEN Module(NewComp)
                   ELSE Module(loadobj(d[s]))]

\* a load that restores the cursor and drops what the stages changed
LoadModulesDefaults(d) ==
  [s \in Slots |-> Module([loadobj(d[s]) EXCEPT !.live = 0])]

\* a load that constructs the first module of NAMES and unpickles the others
LoadModulesFirstAnew(d) ==
  [s \in Slots |-> IF s = NAMES[1] THEN Module(NewComp)
                   ELSE Module(loadobj(d[s]))]

\* a load that leaves the slot of the last module of NAMES empty
LoadModulesUpToLast(d) ==
  [s \in Slots |-> IF s = NAMES[Len(NAMES)] THEN NoModule
                   ELSE Module(loadobj(d[s]))]

\* sys.modules after the loop that reloads the objects from the pickle files
LoadModules(d) == [s \in Slots |-> Module(loadobj(d[s]))]

\* a reload that recovers from a damaged state file: only a missing file
\* stops it
FirstAbsent(d) ==
  LET bad == {i \in 1..Len(NAMES) : d[NAMES[i]].tag = "absent"}
  IN IF bad = {} THEN 0 ELSE CHOOSE i \in bad : \A j \in bad : i <= j

\* the place in NAMES of the first slot whose state file the loop cannot
\* reload, 0 when it reloads them all
FirstBad(d) ==
  LET bad == {i \in 1..Len(NAMES) : d[NAMES[i]].tag # "pickle"}
  IN IF bad = {} THEN 0 ELSE CHOOSE i \in bad : \A j \in bad : i <= j

\* the place in NAMES of the last check() that is called when the check()
\* of slot raises is the one that fails (0: none fails)
LastCheck(raises) == IF raises = 0 THEN Len(NAMES) ELSE raises

\* a load with one loop: check() of each module right after its reload
LoadEventsInterleaved(d, raises) ==
  LET n == IF FirstBad(d) > 0 THEN FirstBad(d) - 1 ELSE LastCheck(raises)
  IN [i \in 1..(2 * n) |->
        IF i % 2 = 1 THEN <<"load", NAMES[(i + 1) \div 2]>>
        ELSE <<"check", NAMES[i \div 2]>>]

\* what _load_modules does in order: it reloads the slots up to the first
\* state file it cannot reload, and with all of them reloaded calls check()
\* of each module up to the one that raises
LoadEvents(d, raises) ==
  IF FirstBad(d) > 0
  THEN [i \in 1..(FirstBad(d) - 1) |-> <<"load", NAMES[i]>>]
  ELSE [i \in 1..Len(NAMES) |-> <<"load", NAMES[i]>>]
       \o [i \in 1..LastCheck(raises) |-> <<"check", NAMES[i]>>]

\* the error loadobj ends with on a file that is no complete pickle
LoadobjError(cmd, NAME, events) == Fatal(cmd, "corrupt", NAME, 1, events)

\* _load_modules ends the command with an error
LoadFails(d, raises) == FirstBad(d) > 0 \/ raises > 0

\* a load with no test that the state file exists: loadobj is called on the
\* missing file and raises
LoadErrorUntested(cmd, d, raises) ==
  IF FirstBad(d) = 0
  THEN Fatal(cmd, "check", NAMES[raises], 1, LoadEvents(d, raises))
  ELSE LoadobjError(cmd, NAMES[FirstBad(d)], LoadEvents(d, raises))

\* the result of a command that _load_modules ends
LoadError(cmd, d, raises) ==
  IF FirstBad(d) = 0
  THEN Fatal(cmd, "check", NAMES[raises], 1, LoadEvents(d, raises))
  ELSE IF d[NAMES[FirstBad(d)]].tag = "absent"
  THEN Fatal(cmd, "not found", NAMES[FirstBad(d)], 1, LoadEvents(d, raises))
  ELSE LoadobjError(cmd, NAMES[FirstBad(d)], LoadEvents(d, raises))

\* resume(stop_after, resume_from, force): gate as for submit, raises the
\* place in NAMES of the module whose check() raises (0: none)
resume(stop_after, resume_from, gate, raises) ==
  LET o == Overrides(parfile, <<<<"STOP_AFTER", stop_after>>,
                               <<"RESUME_FROM", resume_from>>>>)
      f == o.file
  IN /\ pc = "idle" /\ ncmd < MaxCmds
     /\ ncmd' = ncmd + 1
     /\ UNCHANGED <<given, disk, tmp, lastGood, dirty>>
     /\ IF ~o.ok \/ ~f.exists
        THEN Exit(Fatal("resume", ParError(f), "", 1, <<>>), f, fs)
        ELSE IF ~gate
        THEN Exit(Fatal("resume", "declined", "", 255, <<>>), f, fs)
        ELSE IF LoadFails(disk, raises)
        THEN Exit(LoadError("resume", disk, raises), f, fs)
        ELSE /\ parfile' = f
             /\ SystemSubmit("resume", stop_after, resume_from,
                             LoadModules(disk), f, ConfigLogging(fs),
                             LoadEvents(disk, raises))

\* the runs of resume in which the check() that raises, if any, is one of
\* Raising: the command line gives at most one of the two overrides, and
\* check() is reached only past the precheck
ResumeWith(Raising) ==
  \E stop_after \in {None} \cup Stages, resume_from \in {None} \cup Stages,
     gate \in BOOLEAN, raises \in {0} \cup Raising :
    /\ stop_after = None \/ resume_from = None
    /\ ~gate => raises = 0
    /\ resume(stop_after, resume_from, gate, raises)

\* seisflows resume in the life of a working directory: a check() that
\* raises is that of the first module
Resume == ResumeWith({1})

\* a command that registers the parameters without the precheck, reloads
\* the modules and, with no error, goes on in the reloaded environment until
\* it ends; logs is whether it configures the logging
LoadCommand(cmd, logs, raises) ==
  /\ pc = "idle" /\ ncmd < MaxCmds
  /\ ncmd' = ncmd + 1
  /\ UNCHANGED <<given, disk, tmp, lastGood, dirty>>
  /\ IF ~parfile.exists
     THEN Exit(Fatal(cmd, ParError(parfile), "", 1, <<>>), parfile, fs)
     ELSE IF LoadFails(disk, raises)
     THEN Exit(LoadError(cmd, disk, raises), parfile, fs)
     ELSE Exit([Result(cmd, "completed", 0, 0)
                  EXCEPT !.events = LoadEvents(disk, raises)],
               parfile, IF logs THEN ConfigLogging(fs) ELSE fs)

\* seisflows debug
Debug == \E raises \in 0..Len(NAMES) : LoadCommand("debug", TRUE, raises)

\* seisflows check [choice]: without an acceptable choice the command
\* prints its help and exits with status 0
Check ==
  \E acceptable \in BOOLEAN, raises \in 0..Len(NAMES) :
    IF acceptable
    THEN LoadCommand("check", FALSE, raises)
    ELSE /\ pc = "idle" /\ ncmd < MaxCmds /\ raises = 0
         /\ ncmd' = ncmd + 1
         /\ UNCHANGED <<given, disk, tmp, lastGood, dirty>>
         /\ Exit(Result("check", "help", 0, 0), parfile, fs)

(***************************************************************************)
(* SeisFlows.configure and SeisFlows.init.                                 *)
(***************************************************************************)
\* what a component declares for a key of its required paths: nothing, or
\* the type of the value and whether it is required
NoDecl == [value_type |-> "", required |-> FALSE]

Decls == [value_type : {"int", "str"}, required : BOOLEAN]

\* the names of NAMES that declare the key under reqs, in the order of NAMES
Declaring(reqs) == SelectSeq(NAMES, LAMBDA NAME : reqs[NAME] # NoDecl)

\* seisflows_paths.update(req.paths) for each NAME in turn: the entry of the
\* key is the one of the last component that declares it
UpdatePaths(reqs) ==
  LET d == Declaring(reqs)
  IN IF d = <<>> THEN <<>>
     ELSE <<<<"writes", d[Len(d)], reqs[d[Len(d)]]>>>>

\* what configure does in order: a new instance in every slot, the
\* requirements of each read in turn, and the merged entry written
ConfigureEvents(reqs) ==
  NewEvents
  \o [i \in 1..Len(Declaring(reqs)) |->
        <<"requires", Declaring(reqs)[i], reqs[Declaring(reqs)[i]]>>]
  \o UpdatePaths(reqs)

\* the parameter file after configure has appended the parameters of every
\* module and the PATHS to it; lines the file already had stay as they are
Configured(f) ==
  [f EXCEPT !.RESUME_FROM = IF @ = NoLine THEN 0 ELSE @,
            !.STOP_AFTER = IF @ = NoLine THEN 0 ELSE @]

\* the path key the components declare under reqs
PathKey == "DATA"

\* seisflows_paths after the loop over NAMES: the key once, at the place of
\* its first declaration and with the default of the last component that
\* declares it (written here as the place of that component in NAMES)
SeisflowsPaths(reqs) ==
  LET d == Declaring(reqs)
      last == CHOOSE i \in 1..Len(NAMES) : NAMES[i] = d[Len(d)]
  IN IF d = <<>> THEN <<>> ELSE <<<<PathKey, last>>>>

\* write_header: the divider with the name, and the docstring of every key
write_header(entries, name) ==
  <<<<"header", name, 0>>>>
  \o [i \in 1..Len(entries) |-> <<"doc", entries[i][1], 0>>]

\* a writer whose order depends on the commands issued before it
write_in_turn(entries, indent) ==
  [i \in 1..Len(entries) |->
     LET e == IF ncmd > 0 THEN entries[Len(entries) + 1 - i]
              ELSE entries[i]
     IN <<indent, e[1], e[2]>>]

\* a writer of the first key only
write_first(entries, indent) ==
  [i \in 1..(IF entries = <<>> THEN 0 ELSE 1) |->
     <<indent, entries[i][1], entries[i][2]>>]

\* write_paths_parameters: a line "key: default" for every item of the dict
\* in the order of the dict, "key:" when the default is None; indent is ""
\* for the parameters and four spaces for the paths
write_paths_parameters(entries, indent) ==
  [i \in 1..Len(entries) |-> <<indent, entries[i][1], entries[i][2]>>]

\* what the with-block of configure writes for the components of NAMES
\* from place n on: header and parameters of each in turn, and after the
\* last the header of PATHS, the line "PATHS:" and the collected paths
RECURSIVE Render(_, _)
Render(reqs, n) ==
  IF n > Len(NAMES)
  THEN write_header(SeisflowsPaths(reqs), "PATHS")
       \o <<<<"section", "PATHS", 0>>>>
       \o write_paths_parameters(SeisflowsPaths(reqs), "    ")
  ELSE write_header(manifest[NAMES[n]], NAMES[n])
       \o write_paths_parameters(manifest[NAMES[n]], "")
       \o Render(reqs, n + 1)

\* a file opened for writing: the lines it had are gone
Truncated(lines, new) == new

\* open(parameter_file, "a"): what is written goes after the lines the
\* file has
Appended(lines, new) == lines \o new

\* a solver of which nothing is told: no key in PAR, nothing checked, no
\* operation running, a Par_file set for a forward run and no SEM
NoSolver ==
  [keys |-> {}, FORMAT |-> "", base |-> TRUE,
   check |-> [how |-> "none", reported |-> {}],
   op |-> "", at |-> 0, nops |-> 0,
   Par_file |-> [SIMULATION_TYPE |-> "1", SAVE_FORWARD |-> ".true.",
                 ATTENUATION |-> ".true."],
   SEM |-> "none", calls |-> <<>>]

\* no temporary copy of the parameter file
NoBackup == [exists |-> FALSE, lines |-> <<>>]

\* unix.cp(parameter_file, temp_par_file): the copy holds the lines of the
\* file
TempCopy(lines) == [exists |-> TRUE, lines |-> lines]

\* a handler that leaves the file as the writes left it
KeepWritten(copy, written) == written

\* the handler of except Exception: the parameter file is removed and the
\* temporary copy is copied to its name
Reinstate(copy, written) == copy.lines

\* the exceptions a write of the with-block may end with: one that derives
\* from Exception, like an OSError of the write or a TypeError of relpath,
\* and the KeyboardInterrupt of an operator's interrupt, which does not
Raised == {"Exception", "KeyboardInterrupt"}

\* seisflows configure, the components declaring reqs for one path key: the
\* file is opened for appending; with every write done the temporary copy
\* is removed
configure(reqs) ==
  /\ pc = "idle" /\ ncmd < MaxCmds
  /\ ncmd' = ncmd + 1
  /\ UNCHANGED <<fixed, second, pool, solver, disk, tmp, lastGood, dirty>>
  /\ IF ~parfile.exists
     THEN /\ Exit(Fatal("configure", ParError(parfile), "", 1, <<>>),
                  parfile, fs)
          /\ UNCHANGED <<text, rendered, backup>>
     ELSE /\ Exit([Result("configure", "completed", 0, 0)
                     EXCEPT !.events = ConfigureEvents(reqs)],
                  Configured(parfile), fs)
          /\ text' = Appended(text, Render(reqs, 1))
          /\ rendered' = rendered \cup {<<text, reqs, Render(reqs, 1), ncmd>>}
          /\ backup' = NoBackup

\* seisflows configure where the write after the first n lines raises e:
\* the with-block closes the file with the n lines in it; an Exception is
\* handled by reinstating the temporary copy and sys.exit with the
\* message, anything else leaves the process with the file as written and
\* the temporary copy in place
configure_raises(reqs, n, e) ==
  LET copy == TempCopy(text)
      written == Appended(text, SubSeq(Render(reqs, 1), 1, n))
  IN /\ pc = "idle" /\ ncmd < MaxCmds /\ parfile.exists
     /\ n < Len(Render(reqs, 1))
     /\ ncmd' = ncmd + 1
     /\ backup' = copy
     /\ text' = IF e = "Exception" THEN Reinstate(copy, written)
                ELSE written
     /\ res' = IF e = "Exception"
               THEN Fatal("configure", "exception", "", 1, <<>>)
               ELSE Fatal("configure", e, "", 130, <<>>)
     /\ UNCHANGED <<fixed, second, pool, solver,
                    rendered, parfile, fs, disk, tmp,
                    pc, mem, cur, run, executed, saved, slot, state,
                    lastGood, dirty, skipped>>

Configure == \E reqs \in [Slots -> {NoDecl} \cup Decls] : configure(reqs)

\* seisflows setup [-s] [-o]: with a parameter file of the given name in
\* place and no -o the operator is asked, and the file is removed on the
\* answer y or with -o; then the template is copied into the working
\* directory under its own name, parameters.yaml, whatever the answer was
setup(symlink, overwrite, answer) ==
  LET check == IF overwrite THEN "y" ELSE answer
      removed == parfile.exists /\ check = "y"
      template == <<"parameters.yaml", "">>
      d == [fs EXCEPT ![parname] = IF removed THEN "none" ELSE @]
      copied == [d EXCEPT ![template] = "file"]
  IN /\ pc = "idle" /\ ncmd < MaxCmds
     /\ ncmd' = ncmd + 1
     /\ parfile' = IF parname = template THEN BlankFile
                   ELSE IF removed THEN NoFile ELSE parfile
     /\ text' = IF parname = template \/ removed THEN <<>> ELSE text
     /\ fs' = IF symlink THEN Mk(copied, SourceCode, "dir") ELSE copied
     /\ res' = [Result("setup", "completed", 0, 0) EXCEPT
                  !.why = IF parfile.exists /\ ~overwrite THEN "asked" ELSE "",
                  !.named = IF parfile.exists THEN check ELSE ""]
     /\ UNCHANGED <<fixed, apart, rendered, disk, tmp, pc, mem, cur, run, executed,
                    saved, slot, state, lastGood, dirty, skipped>>

Setup ==
  \E symlink \in BOOLEAN, overwrite \in BOOLEAN, answer \in {"y", "n"} :
    setup(symlink, overwrite, answer)

\* required.validate() of the component of slot s, accumulating: the key it
\* declares is missing when it is required, has no default and is not in the
\* parameter file, and mismatched when the file gives it with another type
validate(s) ==
  IF ~required[s].declared THEN <<>>
  ELSE IF supplied[s] = "mistyped" THEN <<<<"mismatch", s>>>>
  ELSE IF supplied[s] = "absent" /\ required[s].required
          /\ required[s].default = None
  THEN <<<<"missing", s>>>>
  ELSE <<>>

\* the place in NAMES of the first component whose validate() finds a
\* problem, 0 when none does
FirstInvalid ==
  LET bad == {i \in 1..Len(NAMES) : validate(NAMES[i]) # <<>>}
  IN IF bad = {} THEN 0 ELSE CHOOSE i \in bad : \A j \in bad : i <= j

\* an init that saves nothing
InitCkptSkipped == NoCkpt

\* the first checkpoint of a working directory: every new instance saved
InitCkpt == [s \in Slots |-> saveobj(init_seisflows[s].obj, s)]

\* seisflows init [-c]: a new instance in every slot, saved by
\* workflow.checkpoint() as the first checkpoint of the working directory;
\* with check, validate() of every component in turn, which either raises
\* on the problems it finds (raises) or returns them to a caller that does
\* not read them
init(check, raises) ==
  /\ pc = "idle" /\ ncmd < MaxCmds
  /\ ncmd' = ncmd + 1
  /\ UNCHANGED <<given, tmp, dirty>>
  /\ IF ~parfile.exists
     THEN /\ Exit(Fatal("init", ParError(parfile), "", 1, <<>>), parfile, fs)
          /\ UNCHANGED <<disk, lastGood>>
     ELSE /\ disk' = InitCkpt
          /\ lastGood' = init_seisflows
          /\ parfile' = parfile
          /\ fs' = Mk(fs, OutputDir, "dir")
          /\ pc' = "idle"
          /\ UNCHANGED <<mem, cur, run, executed, saved, slot, skipped>>
          /\ IF check /\ raises /\ FirstInvalid > 0
             THEN /\ res' = Fatal("init", "validate", NAMES[FirstInvalid], 1,
                                  NewEvents \o <<<<"checkpoint", "">>>>
                                    \o validate(NAMES[FirstInvalid]))
                  /\ state' = state
             ELSE /\ res' = [Result("init", "completed", 0, 0) EXCEPT
                              !.events = NewEvents \o <<<<"checkpoint", "">>>>,
                              !.why = IF check THEN "validated" ELSE ""]
                  /\ state' = "Initialized"

InitCmd == \E check \in BOOLEAN, raises \in BOOLEAN : init(check, raises)

(***************************************************************************)
(* The checkpoint store: one state file per slot, each written to a        *)
(* temporary file, flushed, and renamed into place.                        *)
(***************************************************************************)
\* the slot's state file after the rename of its flushed temporary file
Renamed(s) == saveobj(mem[s].obj, s)

\* a write that goes to the final location of the state file
WriteInPlace(s) == [disk EXCEPT ![s] = PartialBlob]

\* the state files once the write of slot s has begun
WriteBegun(s) == disk

SaveWrite(s) ==
  /\ pc = "save" /\ slot = "" /\ s \notin saved
  /\ \A i, j \in 1..Len(NAMES) : (NAMES[j] = s /\ i < j) => NAMES[i] \in saved
  /\ slot' = s
  /\ tmp' = [tmp EXCEPT ![s] = "partial"]
  /\ disk' = WriteBegun(s)
  /\ UNCHANGED <<given, parfile, fs, pc, mem, cur, run, executed, saved,
                 state, res, lastGood, dirty, skipped, ncmd>>

SaveFlush(s) ==
  /\ pc = "save" /\ slot = s /\ tmp[s] = "partial"
  /\ tmp' = [tmp EXCEPT ![s] = "flushed"]
  /\ UNCHANGED <<given, parfile, fs, disk, pc, mem, cur, run, executed,
                 saved, slot, state, res, lastGood, dirty, skipped, ncmd>>

SaveRename(s) ==
  /\ pc = "save" /\ slot = s /\ tmp[s] = "flushed"
  /\ disk' = [disk EXCEPT ![s] = Renamed(s)]
  /\ tmp' = [tmp EXCEPT ![s] = "none"]
  /\ saved' = saved \cup {s}
  /\ slot' = ""
  /\ IF saved' = Slots
     THEN /\ pc' = "next"
          /\ lastGood' = mem
          /\ dirty' = FALSE
     ELSE /\ pc' = pc
          /\ lastGood' = lastGood
          /\ dirty' = TRUE
  /\ UNCHANGED <<given, parfile, fs, mem, cur, run, executed, state, res,
                 skipped, ncmd>>

\* the end of the orchestrating process, reporting stage i (0: no stage)
Ended(how, code, st, i) ==
  /\ pc' = "idle"
  /\ mem' = NoRegistry
  /\ slot' = ""
  /\ tmp' = [s \in Slots |-> "none"]
  /\ saved' = {}
  /\ cur' = 0
  /\ executed' = <<>>
  /\ run' = NoRun
  /\ state' = st
  /\ res' = Result(run.cmd, how, code, i)

\* the serialization of slot s fails: the checkpoint operation fails
SaveFail(s) ==
  /\ pc = "save" /\ slot = "" /\ s \notin saved
  /\ Ended("checkpoint failed", 1, "Failed", 0)
  /\ UNCHANGED <<given, parfile, fs, disk, lastGood, dirty, skipped, ncmd>>

(***************************************************************************)
(* The stage driver.                                                       *)
(***************************************************************************)
\* the driver halts: the flow is exhausted, or the stage that just completed
\* is the one STOP_AFTER names
Halts == cur >= FlowLen \/ (Len(executed) > 0 /\ cur = run.stop)

\* a driver that starts the next stage without waiting for the checkpoint
StageStartUnsaved ==
  /\ pc \in {"save", "next"} /\ slot = "" /\ ~Halts
  /\ pc' = "stage"
  /\ cur' = cur + 1
  /\ executed' = Append(executed, cur + 1)
  /\ UNCHANGED <<given, parfile, fs, disk, tmp, mem, run, saved, slot,
                 state, res, lastGood, dirty, skipped, ncmd>>

StageStart ==
  /\ pc = "next" /\ ~Halts
  /\ pc' = "stage"
  /\ cur' = cur + 1
  /\ executed' = Append(executed, cur + 1)
  /\ UNCHANGED <<given, parfile, fs, disk, tmp, mem, run, saved, slot,
                 state, res, lastGood, dirty, skipped, ncmd>>

\* the registry once stage i has returned
StageDone(m, i) ==
  [m EXCEPT ![Target(i)] = Module([@.obj EXCEPT !.live = i]),
            !["workflow"] = Module([@.obj EXCEPT !.pos = i,
                                                 !.done = @ \cup {i}])]

\* the stage function returns: the cursor advances and the checkpoint begins
StageReturn ==
  /\ pc = "stage"
  /\ mem' = StageDone(mem, cur)
  /\ pc' = "save"
  /\ saved' = {}
  /\ UNCHANGED <<given, parfile, fs, disk, tmp, cur, run, executed, slot,
                 state, res, lastGood, dirty, skipped, ncmd>>

\* a driver that records the failed stage as the cursor on its way out
StageFailAdvances ==
  /\ pc = "stage"
  /\ Ended("failed", 1, "Failed", cur)
  /\ disk' = [disk EXCEPT !["workflow"] =
                 saveobj(StageDone(mem, cur)["workflow"].obj, "workflow")]
  /\ UNCHANGED <<given, parfile, fs, lastGood, dirty, skipped, ncmd>>

\* the stage function raises
StageFail ==
  /\ pc = "stage"
  /\ Ended("failed", 1, "Failed", cur)
  /\ UNCHANGED <<given, parfile, fs, disk, lastGood, dirty, skipped, ncmd>>

\* the driver halts cleanly
Finish ==
  /\ pc = "next" /\ Halts
  /\ Ended("completed", 0, "Completed", 0)
  /\ UNCHANGED <<given, parfile, fs, disk, lastGood, dirty, skipped, ncmd>>

\* the process is killed (operator kill, cluster preemption, crash)
Kill ==
  /\ pc \notin {"idle"} \cup RestartPcs
  /\ Ended("killed", 137, "Interrupted", IF pc = "stage" THEN cur ELSE 0)
  /\ UNCHANGED <<given, parfile, fs, disk, lastGood, dirty, skipped, ncmd>>

(***************************************************************************)
(* A second invocation of resume on the working directory, while the       *)
(* process of the first may be running: resume takes no lock.              *)
(***************************************************************************)
\* no second process
NoSecond ==
  [pc |-> "idle", cur |-> 0, mem |-> NoRegistry, n |-> 0, stop |-> 0]

\* the checkpoint of registry m, every slot saved
Checkpoint(m) == [s \in Slots |-> saveobj(m[s].obj, s)]

\* seisflows resume [--resume_from STAGE] from another shell: the same
\* steps as resume, on the same parameter file and state files; a command
\* that fails exits and leaves only what par wrote
SecondResume ==
  \E resume_from \in {None} \cup Stages :
    LET o == Overrides(parfile, <<<<"RESUME_FROM", resume_from>>>>)
        f == o.file
        m == LoadModules(disk)
    IN /\ second.pc = "idle" /\ ncmd < MaxCmds
       /\ ncmd' = ncmd + 1
       /\ parfile' = f
       /\ IF ~o.ok \/ ~f.exists \/ LoadFails(disk, 0) \/ ~ValidBounds(f)
          THEN UNCHANGED <<second, fs, disk, lastGood>>
          ELSE /\ second' = [pc |-> "next", cur |-> StartStage(f, m) - 1,
                             mem |-> m, n |-> 0,
                             stop |-> IF f.STOP_AFTER > 0 THEN f.STOP_AFTER
                                      ELSE 0]
               /\ fs' = Mk(Mk(Mk(ConfigLogging(fs), OutputDir, "dir"),
                              ScratchDir, "dir"), LogsDir, "dir")
               /\ disk' = Checkpoint(m)
               /\ lastGood' = m
       /\ UNCHANGED <<fixed, backup, solver, pool, text, rendered,
                      tmp, pc, mem, cur, run, executed,
                      saved, slot, state, res, dirty, skipped>>

\* the driver of the second process halts
SecondHalts ==
  second.cur >= FlowLen \/ (second.n > 0 /\ second.cur = second.stop)

\* the second process starts its next stage
SecondStageStart ==
  /\ second.pc = "next" /\ ~SecondHalts
  /\ second' = [second EXCEPT !.pc = "stage", !.cur = @ + 1, !.n = @ + 1]
  /\ UNCHANGED <<fixed, backup, solver, pool, text, rendered,
                 parfile, fs, disk, tmp, pc, mem, cur,
                 run, executed, saved, slot, state, res, lastGood, dirty,
                 skipped, ncmd>>

\* the stage of the second process returns and its checkpoint is written
SecondStageReturn ==
  /\ second.pc = "stage"
  /\ second' = [second EXCEPT !.pc = "next",
                              !.mem = StageDone(second.mem, second.cur)]
  /\ disk' = Checkpoint(second'.mem)
  /\ lastGood' = second'.mem
  /\ UNCHANGED <<fixed, backup, solver, pool, text, rendered,
                 parfile, fs, tmp, pc, mem, cur, run,
                 executed, saved, slot, state, res, dirty, skipped, ncmd>>

\* the driver of the second process halts and the process ends
SecondFinish ==
  /\ second.pc = "next" /\ SecondHalts
  /\ second' = NoSecond
  /\ UNCHANGED <<fixed, backup, solver, pool, text, rendered,
                 parfile, fs, disk, tmp, pc, mem, cur,
                 run, executed, saved, slot, state, res, lastGood, dirty,
                 skipped, ncmd>>

(***************************************************************************)
(* Noise.rotate_ne_traces_to_rt: a stage that rotates the traces of a      *)
(* source in a pool of worker processes.                                   *)
(***************************************************************************)
\* the number of traces to rotate at most, and of workers (unix.nproc())
MaxTasks == 3

MaxWorkers == 2

\* no call of rotate_ne_traces_to_rt
NoPool == [pc |-> "idle", n |-> 0, workers |-> 0, futures |-> <<>>]

\* a wait that is over when a first future is
AnyDone(futures) ==
  futures = <<>>
  \/ \E i \in 1..Len(futures) : futures[i] \in {"done", "failed"}

\* every future has a result or an exception: what shutdown(wait=True) at
\* the exit of the with-block and wait(futures) block for
AllDone(futures) ==
  \A i \in 1..Len(futures) : futures[i] \in {"done", "failed"}

\* rotate_ne_traces_to_rt is called with n traces: the executor is created
\* with unix.nproc() workers
RotateCall ==
  \E n \in 0..MaxTasks, workers \in 1..MaxWorkers :
    /\ pool.pc = "idle"
    /\ pool' = [pc |-> "with", n |-> n, workers |-> workers, futures |-> <<>>]
    /\ UNCHANGED <<fixed, backup, solver, second, text, rendered,
                   parfile, fs, disk, tmp, pc,
                   mem, cur, run, executed, saved, slot, state, res, lastGood,
                   dirty, skipped, ncmd>>

\* executor.submit(self._rotate_ne_trace_to_rt, ...) for the next trace
ExecutorSubmit ==
  /\ pool.pc = "with" /\ Len(pool.futures) < pool.n
  /\ pool' = [pool EXCEPT !.futures = Append(@, "pending")]
  /\ UNCHANGED <<fixed, backup, solver, second, text, rendered,
                 parfile, fs, disk, tmp, pc,
                 mem, cur, run, executed, saved, slot, state, res, lastGood,
                 dirty, skipped, ncmd>>

\* the with-block ends: ProcessPoolExecutor.__exit__ calls
\* shutdown(wait=True), which returns when every future is done
ExecutorExit ==
  /\ pool.pc = "with" /\ Len(pool.futures) = pool.n
  /\ AllDone(pool.futures)
  /\ pool' = [pool EXCEPT !.pc = "wait"]
  /\ UNCHANGED <<fixed, backup, solver, second, text, rendered,
                 parfile, fs, disk, tmp, pc,
                 mem, cur, run, executed, saved, slot, state, res, lastGood,
                 dirty, skipped, ncmd>>

\* wait(futures) returns, and with it rotate_ne_traces_to_rt; the
\* exception of a future is not looked at
WaitReturns ==
  /\ pool.pc = "wait"
  /\ AllDone(pool.futures)
  /\ pool' = [pool EXCEPT !.pc = "returned"]
  /\ UNCHANGED <<fixed, backup, solver, second, text, rendered,
                 parfile, fs, disk, tmp, pc,
                 mem, cur, run, executed, saved, slot, state, res, lastGood,
                 dirty, skipped, ncmd>>

\* a free worker takes a pending task
WorkerStart(i) ==
  /\ i <= Len(pool.futures)
  /\ pool.futures[i] = "pending"
  /\ Cardinality({j \in 1..Len(pool.futures) : pool.futures[j] = "running"})
       < pool.workers
  /\ pool' = [pool EXCEPT !.futures[i] = "running"]
  /\ UNCHANGED <<fixed, backup, solver, second, text, rendered,
                 parfile, fs, disk, tmp, pc,
                 mem, cur, run, executed, saved, slot, state, res, lastGood,
                 dirty, skipped, ncmd>>

\* _rotate_ne_trace_to_rt returns or raises in its worker
WorkerEnd(i) ==
  /\ i <= Len(pool.futures)
  /\ pool.futures[i] = "running"
  /\ \E how \in {"done", "failed"} :
       pool' = [pool EXCEPT !.futures[i] = how]
  /\ UNCHANGED <<fixed, backup, solver, second, text, rendered,
                 parfile, fs, disk, tmp, pc,
                 mem, cur, run, executed, saved, slot, state, res, lastGood,
                 dirty, skipped, ncmd>>

(***************************************************************************)
(* The specifications.                                                     *)
(***************************************************************************)
NoEntries == [n \in EntryNames |-> "none"]

\* what a component declares for its key: nothing, or whether the key is
\* required and whether it has a default (None: it has not)
NoReq == [declared |-> FALSE, required |-> FALSE, default |-> None]

Reqs == [declared : {TRUE}, required : BOOLEAN, default : {None, 1}]

\* a precheck of which nothing is told
NoPrecheck == [PRECHECK |-> <<>>, force |-> FALSE, answer |-> ""]

\* no process, and no command issued yet
InitProcess ==
  /\ tmp = [s \in Slots |-> "none"]
  /\ pc = "idle"
  /\ mem = NoRegistry
  /\ cur = 0
  /\ run = NoRun
  /\ executed = <<>>
  /\ saved = {}
  /\ slot = ""
  /\ state = "Uninitialized"
  /\ res = Result("none", "none", 0, 0)
  /\ dirty = FALSE
  /\ skipped = FALSE
  /\ ncmd = 0

\* no process, and components that declare no requirement
InitIdle ==
  /\ InitProcess
  /\ required = [s \in Slots |-> NoReq]
  /\ supplied = [s \in Slots |-> "absent"]
  /\ manifest = [s \in Slots |-> <<>>]
  /\ text = <<>>
  /\ rendered = {}
  /\ second = NoSecond
  /\ pool = NoPool
  /\ precheck = NoPrecheck
  /\ backup = NoBackup
  /\ solver = NoSolver

\* a working directory after setup or configure, with the default parameter
\* file name
Init ==
  /\ parname = <<"parameters.yaml", "">>
  /\ parfile \in {ConfiguredFile, BlankFile}
  /\ fs = [NoEntries EXCEPT ![parname] = "file"]
  /\ disk = NoCkpt
  /\ lastGood = NoRegistry
  /\ InitIdle

Next ==
  \/ Submit
  \/ Resume
  \/ Clean
  \/ Par
  \/ \E s \in Slots : SaveWrite(s)
  \/ \E s \in Slots : SaveFlush(s)
  \/ \E s \in Slots : SaveRename(s)
  \/ \E s \in Slots : SaveFail(s)
  \/ StageStart
  \/ StageReturn
  \/ StageFail
  \/ Finish
  \/ Kill

Spec == Init /\ [][Next]_vars

(***************************************************************************)
(* The specification of clean alone: the command run, one time after the   *)
(* other, on a working directory of any content under any of the parameter *)
(* file names.                                                             *)
(***************************************************************************)
\* the kinds the entry n may have when the first clean is issued
InitKinds(n) ==
  IF n \in {OutputDir, ScratchDir} THEN {"none", "dir", "link"}
  ELSE IF n \in {LogsDir, StatsDir} THEN {"none", "dir"}
  ELSE IF n = SourceCode THEN {"dir"}
  ELSE {"none", "file"}

\* a checkpoint under output/, as the first save of a run leaves it
FirstCkpt == [s \in Slots |-> saveobj(NewComp, s)]

InitClean ==
  /\ parname \in ParNames
  /\ parfile = ConfiguredFile
  /\ fs \in {d \in [EntryNames -> Kinds] :
              /\ \A n \in EntryNames : d[n] \in InitKinds(n)
              /\ \A n \in ParNames : d[n] = "file" <=> n = parname}
  /\ \/ disk = NoCkpt /\ lastGood = NoRegistry
     \/ fs[OutputDir] = "dir" /\ disk = FirstCkpt /\ lastGood = init_seisflows
  /\ InitIdle

NextClean == Clean \/ CleanKilled

SpecClean == InitClean /\ [][NextClean]_vars

\* the working directories of InitClean, met by a clean with or without
\* --force whose prompt is answered in one of five ways
InitAsked ==
  /\ parname \in ParNames
  /\ parfile = ConfiguredFile
  /\ fs \in {d \in [EntryNames -> Kinds] :
              /\ \A n \in EntryNames : d[n] \in InitKinds(n)
              /\ \A n \in ParNames : d[n] = "file" <=> n = parname}
  /\ \/ disk = NoCkpt /\ lastGood = NoRegistry
     \/ fs[OutputDir] = "dir" /\ disk = FirstCkpt /\ lastGood = init_seisflows
  /\ required = [s \in Slots |-> NoReq]
  /\ supplied = [s \in Slots |-> "absent"]
  /\ manifest = [s \in Slots |-> <<>>]
  /\ text = <<>>
  /\ rendered = {}
  /\ second = NoSecond
  /\ pool = NoPool
  /\ backup = NoBackup
  /\ solver = NoSolver
  /\ precheck \in [PRECHECK : {<<>>}, force : BOOLEAN,
                    answer : {"y", "n", "", "Y", "yes"}]
  /\ InitProcess

\* seisflows clean [-f] with that flag and that answer
CleanAsked ==
  \E order \in Orders(GlobOutput) :
    clean(precheck.force, precheck.answer, order, Len(CleanTargets(order)))

NextAsked == CleanAsked

SpecAsked == InitAsked /\ [][NextAsked]_vars

(***************************************************************************)
(* SeisFlows.restart: self.clean(force) and then self.submit(force), on a  *)
(* working directory that earlier submits and restarts have left.          *)
(***************************************************************************)
\* the first call of restart(force): clean(force); when clean returns, the
\* command goes on to its second call
RestartClean ==
  \E force \in BOOLEAN, answer \in {"y", "n"}, order \in Orders(GlobOutput) :
    \E kill \in 0..Len(CleanTargets(order)) :
      /\ pc = "idle"
      /\ CleanRun("restart", IF force THEN "restart -f" ELSE "restart",
                  force, answer, order, kill)

\* the second call of restart(force): submit(force), whose precheck is
\* skipped under --force
RestartSubmit ==
  \E gate \in BOOLEAN :
    /\ pc \in RestartPcs
    /\ pc = "restart -f" => gate
    /\ ncmd' = ncmd
    /\ SubmitRun("restart", None, gate, paths_dont_exist(parfile) = <<>>)

NextRestart ==
  \/ Submit
  \/ RestartClean
  \/ RestartSubmit
  \/ \E s \in Slots : SaveWrite(s)
  \/ \E s \in Slots : SaveFlush(s)
  \/ \E s \in Slots : SaveRename(s)
  \/ StageStart
  \/ StageReturn
  \/ Finish
  \/ Kill

SpecRestart == Init /\ [][NextRestart]_vars

\* what a run leaves in the working directory: the checkpoint, the logs and
\* the scratch directory
HoldsState ==
  \/ disk # NoCkpt
  \/ \E n \in {OutputDir, LogsDir, LogFile, ScratchDir} : fs[n] # "none"

(***************************************************************************)
(* The preconditions of submit and resume: the commands issued on a        *)
(* working directory with or without a checkpoint, whose parameter file    *)
(* gives some of the required paths.                                       *)
(***************************************************************************)
\* the number of required paths the parameter file gives at most
MaxSupplied == 2

\* the PATHS of the parameter file
PathConfigs ==
  {p \in [ReqKeys -> PathKinds] :
     Cardinality({k \in ReqKeys : p[k] # "absent"}) <= MaxSupplied}

InitSubmit ==
  /\ parname = <<"parameters.yaml", "">>
  /\ \E p \in PathConfigs, rf \in 0..2 :
       parfile = [ConfiguredFile EXCEPT !.PATHS = p, !.RESUME_FROM = rf]
  /\ \/ /\ disk = NoCkpt /\ lastGood = NoRegistry
        /\ fs = [NoEntries EXCEPT ![parname] = "file"]
     \/ /\ disk = FirstCkpt /\ lastGood = init_seisflows
        /\ fs = [NoEntries EXCEPT ![parname] = "file", ![OutputDir] = "dir",
                                  ![LogFile] = "file"]
  /\ InitIdle

\* the first command issued on the directory
FirstSubmit == ncmd = 0 /\ Submit

FirstResume == ncmd = 0 /\ ResumeWith(1..Len(NAMES))

NextSubmit == FirstSubmit \/ FirstResume

SpecSubmit == InitSubmit /\ [][NextSubmit]_vars

\* the required paths that file f gives with a non-null value and that do
\* not exist on disk
Missing(f) == {k \in ReqKeys : f.PATHS[k] = "missing"}

\* what the result r lists as printed
Printed(r) ==
  {r.events[i][2] : i \in {j \in 1..Len(r.events) : r.events[j][1] = "print"}}

(***************************************************************************)
(* The commands that reload the registry (resume, debug, check), issued    *)
(* on a working directory whose state files a run has left, each of them   *)
(* complete, damaged or missing.                                           *)
(***************************************************************************)
\* the components a run has checkpointed after its first stage
RunComp(s) ==
  IF s = "workflow" THEN [live |-> 0, pos |-> 1, done |-> {1}]
  ELSE IF s = Target(1) THEN [live |-> 1, pos |-> 0, done |-> {}]
  ELSE NewComp

InitLoad ==
  /\ parname = <<"parameters.yaml", "">>
  /\ parfile = ConfiguredFile
  /\ fs = [NoEntries EXCEPT ![parname] = "file", ![OutputDir] = "dir",
                            ![LogFile] = "file", ![LogsDir] = "dir",
                            ![ScratchDir] = "dir"]
  /\ disk \in [Slots -> {NoBlob, PartialBlob} \cup
                         {saveobj(RunComp(s), s) : s \in Slots}]
  /\ \A s \in Slots : disk[s].tag = "pickle" => disk[s].cls = s
  /\ lastGood = [s \in Slots |-> Module(RunComp(s))]
  /\ InitIdle

NextLoad == FirstResume \/ FirstSubmit \/ Debug \/ Check \/ InitCmd

SpecLoad == InitLoad /\ [][NextLoad]_vars

\* the command of this step has come to _load_modules
ReachesLoad(cmd) ==
  /\ res'.cmd = cmd /\ ncmd' = ncmd + 1
  /\ res'.why \notin {"declined", "parameter file", "parameter not found"}
  /\ res'.how # "help"

\* the commands that reload the registry
LoadCmds == {"resume", "debug", "check"}

\* the first n names of NAMES, each the object of a call of kind k
InSlotOrder(k, n) == [i \in 1..n |-> <<k, NAMES[i]>>]

(***************************************************************************)
(* configure and init, issued on a working directory after setup.          *)
(***************************************************************************)
\* configure as the first command on the working directory
FirstConfigure == ncmd = 0 /\ Configure

NextConfigure == FirstConfigure \/ InitCmd

SpecConfigure == Init /\ [][NextConfigure]_vars

(***************************************************************************)
(* init, issued on a working directory after configure: each component     *)
(* declares a key or none, and the parameter file gives the key with the   *)
(* declared type, with another type, or not at all.                        *)
(***************************************************************************)
\* the number of components that declare a key at most
MaxDeclared == 2

InitInit ==
  /\ parname = <<"parameters.yaml", "">>
  /\ parfile = ConfiguredFile
  /\ fs = [NoEntries EXCEPT ![parname] = "file"]
  /\ disk = NoCkpt
  /\ lastGood = NoRegistry
  /\ required \in [Slots -> {NoReq} \cup Reqs]
  /\ Cardinality({s \in Slots : required[s].declared}) <= MaxDeclared
  /\ supplied \in [Slots -> {"absent", "ok", "mistyped"}]
  /\ \A s \in Slots : ~required[s].declared => supplied[s] = "absent"
  /\ manifest = [s \in Slots |-> <<>>]
  /\ text = <<>>
  /\ rendered = {}
  /\ second = NoSecond
  /\ pool = NoPool
  /\ precheck = NoPrecheck
  /\ backup = NoBackup
  /\ solver = NoSolver
  /\ InitProcess

NextInit == InitCmd \/ FirstResume

SpecInit == InitInit /\ [][NextInit]_vars

\* every problem of the parameter file against the requirements of the
\* registry: the required keys that it does not give and that have no
\* default, and the keys it gives with another type than the declared one
Problems ==
  {<<"missing", s>> : s \in {t \in Slots :
      /\ required[t].declared /\ required[t].required
      /\ required[t].default = None /\ supplied[t] = "absent"}}
  \cup {<<"mismatch", s>> : s \in {t \in Slots :
      required[t].declared /\ supplied[t] = "mistyped"}}

(***************************************************************************)
(* submit and resume as the first command on a working directory that      *)
(* holds the first checkpoint, with bounds that may name no stage, and the *)
(* driver until it halts.                                                  *)
(***************************************************************************)
InitStages ==
  /\ parname = <<"parameters.yaml", "">>
  /\ \E rf \in {0, 2, NoStage}, sa \in {0, 1, NoStage} :
       parfile = [ConfiguredFile EXCEPT !.RESUME_FROM = rf, !.STOP_AFTER = sa]
  /\ disk = FirstCkpt /\ lastGood = init_seisflows
  /\ fs = [NoEntries EXCEPT ![parname] = "file", ![OutputDir] = "dir",
                            ![LogFile] = "file"]
  /\ InitIdle

StagesSubmit ==
  /\ ncmd = 0
  /\ \E stop_after \in {None} \cup StageNames :
       submit(stop_after, TRUE, TRUE)

StagesResume ==
  /\ ncmd = 0
  /\ \E stop_after \in {None} \cup StageNames,
        resume_from \in {None} \cup StageNames :
       /\ stop_after = None \/ resume_from = None
       /\ resume(stop_after, resume_from, TRUE, 0)

NextStages ==
  \/ StagesSubmit
  \/ StagesResume
  \/ \E s \in Slots : SaveWrite(s)
  \/ \E s \in Slots : SaveFlush(s)
  \/ \E s \in Slots : SaveRename(s)
  \/ StageStart
  \/ StageReturn
  \/ Finish

SpecStages == InitStages /\ [][NextStages]_vars

(***************************************************************************)
(* Two invocations of resume on a working directory that holds the first   *)
(* checkpoint, each with its driver.                                       *)
(***************************************************************************)
\* resume from the first shell, the first command on the directory
ResumeOfTwo ==
  /\ ncmd = 0
  /\ \E resume_from \in {None} \cup Stages :
       resume(None, resume_from, TRUE, 0)

\* resume from the second shell, once
SecondOfTwo == second = NoSecond /\ ncmd <= 1 /\ SecondResume

InitTwo ==
  /\ parname = <<"parameters.yaml", "">>
  /\ parfile = ConfiguredFile
  /\ disk = FirstCkpt /\ lastGood = init_seisflows
  /\ fs = [NoEntries EXCEPT ![parname] = "file", ![OutputDir] = "dir",
                            ![LogFile] = "file"]
  /\ InitIdle

NextTwo ==
  \/ ResumeOfTwo
  \/ \E s \in Slots : SaveWrite(s)
  \/ \E s \in Slots : SaveFlush(s)
  \/ \E s \in Slots : SaveRename(s)
  \/ StageStart
  \/ StageReturn
  \/ Finish
  \/ SecondOfTwo
  \/ SecondStageStart
  \/ SecondStageReturn
  \/ SecondFinish

SpecTwo == InitTwo /\ [][NextTwo]_vars

(***************************************************************************)
(* One call of rotate_ne_traces_to_rt and the workers of its pool.         *)
(***************************************************************************)
NextRotate ==
  \/ RotateCall
  \/ ExecutorSubmit
  \/ ExecutorExit
  \/ WaitReturns
  \/ \E i \in 1..MaxTasks : WorkerStart(i)
  \/ \E i \in 1..MaxTasks : WorkerEnd(i)

SpecRotate == Init /\ [][NextRotate]_vars

(***************************************************************************)
(* submit and resume as the first command on a working directory that      *)
(* holds the first checkpoint, with and without --force, with an empty and *)
(* a non-empty PRECHECK, and every answer of the operator.                 *)
(***************************************************************************)
InitPrecheck ==
  /\ parname = <<"parameters.yaml", "">>
  /\ parfile = ConfiguredFile
  /\ disk = FirstCkpt /\ lastGood = init_seisflows
  /\ fs = [NoEntries EXCEPT ![parname] = "file", ![OutputDir] = "dir"]
  /\ required = [s \in Slots |-> NoReq]
  /\ supplied = [s \in Slots |-> "absent"]
  /\ manifest = [s \in Slots |-> <<>>]
  /\ text = <<>>
  /\ rendered = {}
  /\ second = NoSecond
  /\ pool = NoPool
  /\ backup = NoBackup
  /\ solver = NoSolver
  /\ precheck \in [PRECHECK : {<<>>, <<"TITLE">>}, force : BOOLEAN,
                    answer : {"y", "n", "", "Y", "yes"}]
  /\ InitProcess

PrecheckSubmit ==
  /\ ncmd = 0
  /\ \E stop_after \in {None} \cup Stages :
       submit(stop_after,
              Gate(precheck.force, precheck.PRECHECK, precheck.answer), TRUE)

PrecheckResume ==
  /\ ncmd = 0
  /\ \E stop_after \in {None} \cup Stages,
        resume_from \in {None} \cup Stages :
       /\ stop_after = None \/ resume_from = None
       /\ resume(stop_after, resume_from,
                 Gate(precheck.force, precheck.PRECHECK, precheck.answer), 0)

NextPrecheck == PrecheckSubmit \/ PrecheckResume

SpecPrecheck == InitPrecheck /\ [][NextPrecheck]_vars

\* the step is a run of submit or resume
HandoffStep == ncmd' = ncmd + 1 /\ res'.cmd \in {"submit", "resume"}

\* file f gives a bound that names no stage
NamesNoStage(f) ==
  \/ f.RESUME_FROM > 0 /\ f.RESUME_FROM \notin Stages
  \/ f.STOP_AFTER > 0 /\ f.STOP_AFTER \notin Stages

(***************************************************************************)
(* configure and setup on a working directory whose components declare     *)
(* parameters: each component declares some of the keys of KeyOrder, in    *)
(* an order of its own.                                                    *)
(***************************************************************************)
\* the parameter keys in the order of their names, each with its default
KeyOrder == <<<<"DT", None>>, <<"NT", 1>>>>

\* the place of key k in the order of the names
KeyRank(k) == CHOOSE i \in 1..Len(KeyOrder) : KeyOrder[i][1] = k

\* the .required.parameters a component may have: no key, or some of the
\* keys, each once, in any order
Manifests ==
  {<<>>} \cup {<<KeyOrder[i]>> : i \in 1..Len(KeyOrder)}
  \cup {<<KeyOrder[p[1]], KeyOrder[p[2]]>> :
          p \in {q \in (1..Len(KeyOrder)) \X (1..Len(KeyOrder)) :
                   q[1] # q[2]}}

\* the path requirements of the components: none declares the path key, or
\* the first and the last component of NAMES do
TemplateReqs ==
  {[s \in Slots |-> NoDecl],
   [s \in Slots |-> IF s \in {NAMES[1], NAMES[Len(NAMES)]}
                    THEN [value_type |-> "str", required |-> TRUE]
                    ELSE NoDecl]}

InitTemplate ==
  /\ parname = <<"parameters.yaml", "">>
  /\ parfile = BlankFile
  /\ fs = [NoEntries EXCEPT ![parname] = "file"]
  /\ disk = NoCkpt
  /\ lastGood = NoRegistry
  /\ required = [s \in Slots |-> NoReq]
  /\ supplied = [s \in Slots |-> "absent"]
  /\ manifest \in [Slots -> Manifests]
  /\ Cardinality({s \in Slots : manifest[s] # <<>>}) <= MaxDeclared
  /\ text = <<>>
  /\ rendered = {}
  /\ second = NoSecond
  /\ pool = NoPool
  /\ precheck = NoPrecheck
  /\ backup = NoBackup
  /\ solver = NoSolver
  /\ InitProcess

\* configure with the path requirements of TemplateReqs
TemplateConfigure == \E reqs \in TemplateReqs : configure(reqs)

\* setup -o: the parameter file is the blank template again
TemplateSetup == setup(FALSE, TRUE, "y")

NextTemplate == TemplateConfigure \/ TemplateSetup

SpecTemplate == InitTemplate /\ [][NextTemplate]_vars

(***************************************************************************)
(* par on the lines configure wrote: the keys of the components and of     *)
(* PATHS, next to RESUME_FROM and STOP_AFTER of the template.              *)
(***************************************************************************)
\* a value that holds a colon, like 12:00 or a URL
Colon == 0 - 3

\* parameter.upper(): the names the operator may type and what they become
ParArgs == {"nt", "DT", "DATA", "PATHS", "NPROC"}

Upper(parameter) == IF parameter = "nt" THEN "NT" ELSE parameter

\* the condition of the loop of par on line l: the stripped line starts
\* with "PARAMETER:" and the line does not start with "#"; headers and
\* docstrings are comments, the keys of PATHS are indented
LineMatches(l, PARAMETER) ==
  l[1] \in {"", "    ", "section"} /\ l[2] = PARAMETER

\* the line the loop of par breaks at, 0 when it runs to its else
FirstLine(lines, PARAMETER) ==
  LET m == {i \in 1..Len(lines) : LineMatches(lines[i], PARAMETER)}
  IN IF m = {} THEN 0 ELSE CHOOSE i \in m : \A j \in m : i <= j

\* a par that rewrites every line of the key
par_every_line(lines, PARAMETER, value) ==
  [i \in 1..Len(lines) |->
     IF LineMatches(lines[i], PARAMETER) /\ value # None
     THEN <<lines[i][1], lines[i][2], value>> ELSE lines[i]]

\* the lines par leaves in the file: with a value, the line of the key is
\* split at its colon and written again with the value; the unpacking of
\* the split raises when the line holds a second colon, before the file is
\* opened for writing
par_lines(lines, PARAMETER, value) ==
  LET i == FirstLine(lines, PARAMETER)
  IN IF i = 0 \/ value = None \/ lines[i][3] = Colon
     THEN lines
     ELSE [lines EXCEPT ![i] = <<@[1], @[2], value>>]

\* seisflows par parameter [value] for a key of the components
ParText ==
  \E parameter \in ParArgs, value \in {None, 2, Colon} :
    LET PARAMETER == Upper(parameter)
        i == FirstLine(text, PARAMETER)
    IN /\ pc = "idle" /\ ncmd < MaxCmds
       /\ ncmd' = ncmd + 1
       /\ text' = IF parfile.exists THEN par_lines(text, PARAMETER, value)
                  ELSE text
       /\ res' = IF ~parfile.exists
                 THEN Fatal("par", ParError(parfile), PARAMETER, 1, <<>>)
                 ELSE IF i = 0
                 THEN Fatal("par", "parameter not found", PARAMETER, 1,
                            <<>>)
                 ELSE IF value = None
                 THEN [Result("par", "completed", 0, 0)
                         EXCEPT !.named = PARAMETER,
                                !.events = <<<<"print", PARAMETER>>>>]
                 ELSE IF text[i][3] = Colon
                 THEN Fatal("par", "ValueError", PARAMETER, 1, <<>>)
                 ELSE [Result("par", "completed", 0, 0)
                         EXCEPT !.named = PARAMETER,
                                !.events = <<<<"set", PARAMETER, value>>>>]
       /\ UNCHANGED <<fixed, apart, rendered, parfile, fs, disk, tmp, pc,
                      mem, cur, run, executed, saved, slot, state,
                      lastGood, dirty, skipped>>

\* one configure, and then par twice at most
ConfigureOfPar == ncmd = 0 /\ TemplateConfigure

ParOfPar == ncmd \in 1..2 /\ ParText

NextPar == ConfigureOfPar \/ ParOfPar

SpecPar == InitTemplate /\ [][NextPar]_vars

(***************************************************************************)
(* configure whose writes may fail.                                        *)
(***************************************************************************)
\* two commands at most, each a configure that completes
ConfigureOfAtomic == ncmd <= 1 /\ TemplateConfigure

\* or one whose write raises before the first line, after the first line
\* or before the last
ConfigureRaises ==
  /\ ncmd <= 1
  /\ \E reqs \in TemplateReqs, e \in Raised :
       \E n \in {0, 1, Len(Render(reqs, 1)) - 1} :
         configure_raises(reqs, n, e)

NextAtomic == ConfigureOfAtomic \/ ConfigureRaises

SpecAtomic == InitTemplate /\ [][NextAtomic]_vars

(***************************************************************************)
(* Specfem3D.check: the parameters the solver needs.                       *)
(***************************************************************************)
\* the keys check looks for in PAR, in the order of its statements
CheckKeys == <<"NT", "DT", "F0", "FORMAT">>

acceptable_formats == {"su", "SU"}

\* check on a PAR with the keys present and that FORMAT, the check of the
\* base class passing (base) or raising: the first statement whose
\* condition holds raises, and names its own key
Specfem3DCheck(present, format, base) ==
  LET missing == {i \in 1..Len(CheckKeys) : CheckKeys[i] \notin present}
  IN IF ~base THEN [how |-> "raised", reported |-> {"base"}]
     ELSE IF missing # {}
     THEN [how |-> "raised",
           reported |-> {CheckKeys[CHOOSE i \in missing :
                                     \A j \in missing : i <= j]}]
     ELSE IF format \notin acceptable_formats
     THEN [how |-> "raised", reported |-> {"FORMAT"}]
     ELSE [how |-> "accepted", reported |-> {}]

\* a solver to check: any of the keys in PAR, FORMAT with one of three
\* values when it is there, the base class content or not
InitCheck ==
  /\ parname = <<"parameters.yaml", "">>
  /\ parfile = ConfiguredFile
  /\ fs = [NoEntries EXCEPT ![parname] = "file"]
  /\ disk = NoCkpt /\ lastGood = NoRegistry
  /\ required = [s \in Slots |-> NoReq]
  /\ supplied = [s \in Slots |-> "absent"]
  /\ manifest = [s \in Slots |-> <<>>]
  /\ text = <<>>
  /\ rendered = {}
  /\ second = NoSecond
  /\ pool = NoPool
  /\ precheck = NoPrecheck
  /\ backup = NoBackup
  /\ \E present \in SUBSET {CheckKeys[i] : i \in 1..Len(CheckKeys)},
        format \in {"su", "SU", "ascii"}, base \in BOOLEAN :
       solver = [NoSolver EXCEPT
                   !.keys = present, !.base = base,
                   !.FORMAT = IF "FORMAT" \in present THEN format ELSE ""]
  /\ InitProcess

\* solver.check()
SolverCheck ==
  /\ solver.check.how = "none"
  /\ solver' = [solver EXCEPT
                  !.check = Specfem3DCheck(solver.keys, solver.FORMAT,
                                           solver.base)]
  /\ UNCHANGED <<fixed, second, pool, backup, text, rendered, parfile, fs,
                 disk, tmp, pc, mem, cur, run, executed, saved, slot, state,
                 res, lastGood, dirty, skipped, ncmd>>

NextCheck == SolverCheck

SpecCheck == InitCheck /\ [][NextCheck]_vars

(***************************************************************************)
(* Specfem3D.forward and Specfem3D.adjoint, statement by statement.        *)
(***************************************************************************)
\* the operations started on one solver directory
MaxOps == 3

\* a forward that launches with the Par_file as it finds it
ForwardAsFound ==
  <<<<"call_solver", "bin/xgenerate_databases", "">>,
    <<"call_solver", "bin/xspecfem3D", "">>,
    <<"mv", "OUTPUT_FILES", "traces/syn">>>>

\* the statements of forward(), in order
ForwardSteps ==
  <<<<"setpar", "SIMULATION_TYPE", "1">>,
    <<"setpar", "SAVE_FORWARD", ".true.">>,
    <<"call_solver", "bin/xgenerate_databases", "">>,
    <<"call_solver", "bin/xspecfem3D", "">>,
    <<"mv", "OUTPUT_FILES", "traces/syn">>>>

\* an adjoint that launches before it links SEM
AdjointLinksLate ==
  <<<<"setpar", "SIMULATION_TYPE", "3">>,
    <<"setpar", "SAVE_FORWARD", ".false.">>,
    <<"setpar", "ATTENUATION", ".false.">>,
    <<"call_solver", "bin/xspecfem3D", "">>,
    <<"rm", "SEM", "">>,
    <<"ln", "traces/adj", "SEM">>>>

\* the statements of adjoint(), in order
AdjointSteps ==
  <<<<"setpar", "SIMULATION_TYPE", "3">>,
    <<"setpar", "SAVE_FORWARD", ".false.">>,
    <<"setpar", "ATTENUATION", ".false.">>,
    <<"rm", "SEM", "">>,
    <<"ln", "traces/adj", "SEM">>,
    <<"call_solver", "bin/xspecfem3D", "">>>>

StepsOf(op) == IF op = "forward" THEN ForwardSteps ELSE AdjointSteps

\* what an executable launched by operation op finds: the Par_file and SEM
\* of that moment
Launched(op, executable) ==
  <<op, executable, solver.Par_file.SIMULATION_TYPE,
    solver.Par_file.SAVE_FORWARD, solver.SEM>>

\* the solver directory a workflow may leave behind: the Par_file set for
\* any kind of simulation, SEM absent, a directory or a link
InitSolver ==
  /\ parname = <<"parameters.yaml", "">>
  /\ parfile = ConfiguredFile
  /\ fs = [NoEntries EXCEPT ![parname] = "file"]
  /\ disk = NoCkpt /\ lastGood = NoRegistry
  /\ required = [s \in Slots |-> NoReq]
  /\ supplied = [s \in Slots |-> "absent"]
  /\ manifest = [s \in Slots |-> <<>>]
  /\ text = <<>>
  /\ rendered = {}
  /\ second = NoSecond
  /\ pool = NoPool
  /\ precheck = NoPrecheck
  /\ backup = NoBackup
  /\ \E sim \in {"1", "2", "3"}, save \in {".true.", ".false."},
        sem \in {"none", "dir", "traces/adj", "traces/syn"} :
       solver = [NoSolver EXCEPT
                   !.keys = {CheckKeys[i] : i \in 1..Len(CheckKeys)},
                   !.FORMAT = "su",
                   !.check = [how |-> "accepted", reported |-> {}],
                   !.Par_file = [SIMULATION_TYPE |-> sim,
                                 SAVE_FORWARD |-> save,
                                 ATTENUATION |-> ".true."],
                   !.SEM = sem]
  /\ InitProcess

\* what no statement of the solver changes
beside ==
  <<fixed, second, pool, backup, text, rendered, parfile, fs, disk, tmp, pc,
    mem, cur, run, executed, saved, slot, state, res, lastGood, dirty,
    skipped, ncmd>>

\* solver.forward() is called
Forward ==
  /\ solver.op = "" /\ solver.nops < MaxOps
  /\ solver' = [solver EXCEPT !.op = "forward", !.at = 1,
                               !.nops = @ + 1]
  /\ UNCHANGED beside

\* solver.adjoint() is called
Adjoint ==
  /\ solver.op = "" /\ solver.nops < MaxOps
  /\ solver' = [solver EXCEPT !.op = "adjoint", !.at = 1,
                               !.nops = @ + 1]
  /\ UNCHANGED beside

\* the next statement of the operation that is running; after the last the
\* operation returns
SolverStep ==
  /\ solver.op # ""
  /\ LET steps == StepsOf(solver.op)
         st == steps[solver.at]
         done == IF st[1] = "setpar"
                 THEN [solver EXCEPT !.Par_file[st[2]] = st[3]]
                 ELSE IF st[1] = "rm"
                 THEN [solver EXCEPT !.SEM = "none"]
                 ELSE IF st[1] = "ln"
                 THEN [solver EXCEPT !.SEM = st[2]]
                 ELSE IF st[1] = "call_solver"
                 THEN [solver EXCEPT
                         !.calls = Append(@, Launched(solver.op, st[2]))]
                 ELSE solver
     IN solver' = IF solver.at = Len(steps)
                  THEN [done EXCEPT !.op = "", !.at = 0]
                  ELSE [done EXCEPT !.at = @ + 1]
  /\ UNCHANGED beside

\* the executable of a call_solver ends with an error: the operation
\* raises at that statement
CallFails ==
  /\ solver.op # ""
  /\ LET st == StepsOf(solver.op)[solver.at]
     IN /\ st[1] = "call_solver"
        /\ solver' = [solver EXCEPT
                        !.calls = Append(@, Launched(solver.op, st[2])),
                        !.op = "", !.at = 0]
  /\ UNCHANGED beside

NextSolver == Forward \/ Adjoint \/ SolverStep \/ CallFails

SpecSolver == InitSolver /\ [][NextSolver]_vars

(***************************************************************************)
(* setup on a working directory with or without a parameter file of the    *)
(* name the operator gives, before and after configure.                    *)
(***************************************************************************)
InitSetup ==
  /\ parname \in ParNames
  /\ parfile \in {NoFile, BlankFile}
  /\ fs = [NoEntries EXCEPT
             ![parname] = IF parfile.exists THEN "file" ELSE "none"]
  /\ disk = NoCkpt
  /\ lastGood = NoRegistry
  /\ InitIdle

NextSetup == Setup \/ TemplateConfigure

SpecSetup == InitSetup /\ [][NextSetup]_vars

\* the step is a run of seisflows setup
SetupStep == ncmd' = ncmd + 1 /\ res'.cmd = "setup"

\* the lines of kind k among lines, in order
Lines(lines, k) == SelectSeq(lines, LAMBDA l : l[1] = k)

\* the parameter lines that lines holds between the header of the
\* component at place n of NAMES and the next header, as keys and defaults
Section(lines, n) ==
  LET heads == {i \in 1..Len(lines) : lines[i][1] = "header"}
      at == CHOOSE i \in heads : Cardinality({j \in heads : j <= i}) = n
      next == CHOOSE i \in heads : Cardinality({j \in heads : j <= i}) = n + 1
      body == SubSeq(lines, at + 1, next - 1)
      params == SelectSeq(body, LAMBDA l : l[1] = "")
  IN [i \in 1..Len(params) |-> <<params[i][2], params[i][3]>>]

\* the keys of entries are in the order of their names
ByKey(entries) ==
  \A i, j \in 1..Len(entries) :
    i < j => KeyRank(entries[i][1]) < KeyRank(entries[j][1])

\* entries holds exactly the items of dict, each once
SameItems(entries, dict) ==
  /\ Len(entries) = Len(dict)
  /\ \A i \in 1..Len(dict) : \E j \in 1..Len(entries) : entries[j] = dict[i]

\* the names of the headers of lines are those of NAMES in order, then PATHS
HeadersInSlotOrder(lines) ==
  LET h == Lines(lines, "header")
  IN /\ Len(h) = Len(NAMES) + 1
     /\ \A i \in 1..Len(NAMES) : h[i][2] = NAMES[i]
     /\ h[Len(NAMES) + 1][2] = "PATHS"

\* lines ends with a single PATHS section that holds the path key once when
\* some component of reqs declares it and not at all when none does
OnePathsSection(lines, reqs) ==
  LET at == {i \in 1..Len(lines) : lines[i][1] = "section"}
      paths == Lines(lines, "    ")
  IN /\ Cardinality(at) = 1
     /\ \A i \in at : \A j \in 1..Len(lines) :
          j > i <=> lines[j][1] = "    "
     /\ Len(paths) = IF \E s \in Slots : reqs[s] # NoDecl THEN 1 ELSE 0
     /\ \A i \in 1..Len(paths) : paths[i][2] = PathKey

\* the step is a run of seisflows init
InitStep == res'.cmd = "init" /\ ncmd' = ncmd + 1

\* the problems result r reports
Reported(r) ==
  {r.events[i] : i \in {j \in 1..Len(r.events) :
                          r.events[j][1] \in {"missing", "mismatch"}}}

\* the components that result r lists as declaring the key differently
\* from one another
Conflicting(r) ==
  {pair \in Slots \X Slots :
     \E i, j \in 1..Len(r.events) :
       /\ r.events[i][1] = "requires" /\ r.events[j][1] = "requires"
       /\ r.events[i][2] = pair[1] /\ r.events[j][2] = pair[2]
       /\ r.events[i][3] # r.events[j][3]}

\* the slots that result r lists as registered, in order: those given a
\* new instance and those reloaded
Registered(r) == SelectSeq(r.events, LAMBDA e : e[1] \in {"new", "load"})

\* the calls of kind k that result r lists, in order
Calls(r, k) == SelectSeq(r.events, LAMBDA e : e[1] = k)

\* the working directory: its entries, the parameter file and the state files
WorkingDirectory == <<fs, parfile, disk, tmp>>

(***************************************************************************)
(* Resume, stop_after and the stages a run executes.                       *)
(***************************************************************************)
\* the driver has halted cleanly: the next step of the process is its end
AtHalt == pc = "next" /\ Halts

\* the handoff of a resume has just been made: the registry is the one
\* loaded, and the first checkpoint of the run has not begun
JustLoaded ==
  /\ run.cmd = "resume" /\ pc = "save" /\ executed = <<>>
  /\ saved = {} /\ slot = ""

\* every state file on disk is the pickle of the module of registry m
OnDisk(m) == \A s \in Slots : disk[s] = saveobj(m[s].obj, s)

\* a run that halted cleanly ended Completed with exit status 0
EndsCompleted ==
  (res.cmd \in {"submit", "resume"} /\ res.how = "completed") =>
    (state = "Completed" /\ res.code = 0 /\ pc = "idle")

\* the stages from the one after the cursor on disk at the handoff to the end
\* of the flow
Rest == Range(run.loaded + 1, FlowLen)

RunsRest ==
  /\ run.start = run.loaded + 1
  /\ IsPrefix(executed, Rest)
  /\ (AtHalt => executed = Rest)

\* C1 (as amended): a resume that finds RESUME_FROM and STOP_AFTER empty in
\* the parameter file, the checkpoint on disk having its cursor at stage k,
\* starts at stage k+1, executes the stages k+1..end in flow order, each
\* once, halts only when all of them have been executed, and ends Completed.
C1_ResumeRunsRest ==
  /\ (run.cmd = "resume" /\ run.rf <= 0 /\ run.sa <= 0) => RunsRest
  /\ EndsCompleted

\* C1 as stated: every resume given no override on the command line runs
\* exactly the stages k+1..end.
C1_AsStated ==
  (run.cmd = "resume" /\ run.resume_from = None /\ run.stop_after = None) =>
    RunsRest

\* a resume with no override from cursor 1 has run exactly stages 2..end
C1_Witness ==
  /\ AtHalt /\ run.cmd = "resume"
  /\ run.resume_from = None /\ run.stop_after = None
  /\ run.rf = 0 /\ run.sa = 0
  /\ run.loaded = 1 /\ executed = Range(2, FlowLen)

\* C2: a submit given stop_after = S starts at the first stage, executes the
\* stages 1..S in flow order, halts as soon as S has returned and its
\* checkpoint is saved, leaves on disk the checkpoint of the registry after
\* stage S (cursor S, stages 1..S done), and ends Completed.
C2_SubmitStopAfter ==
  /\ (run.cmd = "submit" /\ run.stop_after \in Stages) =>
       /\ run.start = 1
       /\ IsPrefix(executed, Range(1, run.stop_after))
       /\ (pc = "next" /\ Len(executed) = run.stop_after => Halts)
       /\ (AtHalt =>
             /\ executed = Range(1, run.stop_after)
             /\ ~dirty /\ OnDisk(mem)
             /\ disk["workflow"].obj.pos = run.stop_after
             /\ disk["workflow"].obj.done = 1..run.stop_after)
  /\ EndsCompleted

\* submit -s 2 has run stages 1 and 2 and halted with cursor 2 on disk
C2_Witness ==
  /\ AtHalt /\ run.cmd = "submit" /\ run.stop_after = 2
  /\ executed = <<1, 2>> /\ disk["workflow"].obj.pos = 2
  /\ 2 < FlowLen

(***************************************************************************)
(* The checkpoint on disk and the stage in progress.                       *)
(***************************************************************************)
\* every stage up to the cursor of the checkpoint on disk has completed
CursorCovered ==
  disk["workflow"].tag = "pickle" =>
    \A i \in 1..disk["workflow"].obj.pos : i \in disk["workflow"].obj.done

\* while a stage executes no checkpoint is being written, the checkpoint on
\* disk is the one of the registry the stage started from, and for every
\* stage of a run after its first its cursor is the stage before
SavedBeforeStage ==
  pc = "stage" =>
    /\ ~dirty /\ OnDisk(mem) /\ OnDisk(lastGood)
    /\ \A s \in Slots : tmp[s] = "none"
    /\ (Len(executed) > 1 => disk["workflow"].obj.pos = cur - 1)

\* C3 (as amended): as long as no run of the working directory started past
\* the stage after its cursor, the cursor of the checkpoint on disk names a
\* stage N such that every stage up to N has completed; a checkpoint is never
\* written while a stage executes, and a stage starts only when the
\* checkpoint of the stage before is saved.
C3_CheckpointConsistency ==
  /\ ~skipped => CursorCovered
  /\ SavedBeforeStage

\* C3 as stated: in every reachable state every stage up to the cursor of
\* the checkpoint on disk has completed.
C3_AsStated == CursorCovered /\ SavedBeforeStage

\* stage 3 executes, the checkpoint of stage 2 on disk, stages 1 and 2 done
C3_Witness ==
  /\ pc = "stage" /\ cur = 3 /\ ~skipped
  /\ disk["workflow"].obj.pos = 2 /\ disk["workflow"].obj.done = {1, 2}

(***************************************************************************)
(* Stage failure and interrupt.                                            *)
(***************************************************************************)
\* the step is the handoff of a resume
ResumeHandoff == pc = "idle" /\ pc' = "save" /\ run'.cmd = "resume"

\* the step ends the process in the stage it was executing, the way how
EndsInStage(how) == pc = "stage" /\ pc' = "idle" /\ res'.how = how

\* the step leaves the checkpoint on disk as it is: the complete checkpoint
\* saved after the last stage that returned
CheckpointKept ==
  /\ disk' = disk /\ lastGood' = lastGood /\ ~dirty'
  /\ \A s \in Slots : disk'[s] = saveobj(lastGood'[s].obj, s)

\* C4 (as amended): when a stage function fails the process ends without
\* executing a later stage, the checkpoint on disk stays the one saved after
\* the last stage that returned, the failing stage is reported, and the run
\* ends Failed with a non-zero exit status; a resume issued next restarts at
\* the failed stage when RESUME_FROM is empty in the parameter file for it
\* and was for the failed run.
C4_StageFailure ==
  [][/\ EndsInStage("failed") =>
          /\ res'.stage = cur /\ state' = "Failed" /\ res'.code # 0
          /\ executed' = <<>> /\ CheckpointKept
     /\ (res.how = "failed" /\ ResumeHandoff /\ res.rf <= 0
           /\ run'.rf <= 0) => run'.start = res.stage]_vars

\* C4 as stated: after a stage failure a resume given no override restarts
\* at the failed stage.
C4_AsStated ==
  [][/\ EndsInStage("failed") =>
          /\ res'.stage = cur /\ state' = "Failed" /\ res'.code # 0
          /\ executed' = <<>> /\ CheckpointKept
     /\ (res.how = "failed" /\ ResumeHandoff /\ run'.resume_from = None) =>
          run'.start = res.stage]_vars

\* stage 2 failed: the run is Failed, reporting stage 2, cursor 1 on disk
C4_Witness ==
  /\ res.how = "failed" /\ res.stage = 2 /\ res.rf = 0 /\ state = "Failed"
  /\ pc = "idle" /\ disk["workflow"].obj.pos = 1 /\ ncmd < MaxCmds

\* C5 (as amended): no step taken while a stage executes writes a state
\* file; an interrupt during a stage leaves on disk the complete checkpoint
\* saved before the stage started, its cursor that of a stage that
\* completed; a resume issued next restarts the interrupted stage from the
\* registry of that checkpoint when RESUME_FROM is empty in the parameter
\* file for it and was for the interrupted run.
C5_Interrupt ==
  [][/\ pc = "stage" => (disk' = disk /\ \A s \in Slots : tmp'[s] = "none")
     /\ EndsInStage("killed") =>
          /\ res'.stage = cur /\ state' = "Interrupted" /\ CheckpointKept
          /\ disk'["workflow"].obj.pos \in
               {0} \cup disk'["workflow"].obj.done
     /\ (res.how = "killed" /\ res.stage > 0 /\ ResumeHandoff /\ res.rf <= 0
           /\ run'.rf <= 0) =>
          /\ run'.start = res.stage /\ cur' = res.stage - 1
          /\ executed' = <<>> /\ mem' = lastGood]_vars

\* C5 as stated: after an interrupt during a stage a resume given no
\* override restarts the interrupted stage.
C5_AsStated ==
  [][/\ pc = "stage" => (disk' = disk /\ \A s \in Slots : tmp'[s] = "none")
     /\ EndsInStage("killed") =>
          /\ res'.stage = cur /\ state' = "Interrupted" /\ CheckpointKept
     /\ (res.how = "killed" /\ res.stage > 0 /\ ResumeHandoff
           /\ run'.resume_from = None) => run'.start = res.stage]_vars

\* stage 2 was interrupted: cursor 1 on disk, the checkpoint complete
C5_Witness ==
  /\ res.how = "killed" /\ res.stage = 2 /\ res.rf = 0
  /\ state = "Interrupted" /\ pc = "idle" /\ ~dirty
  /\ disk["workflow"].obj.pos = 1 /\ ncmd < MaxCmds

(***************************************************************************)
(* The checkpoint store.                                                   *)
(***************************************************************************)
\* C6: every step leaves the state file of every slot as it was, removes it
\* (clean), or replaces it by the complete pickle of the slot's module, and
\* this only by the rename of the slot's temporary file once that file is
\* written and flushed: at no point of a save, and so after no crash, is a
\* partially written state file at its final location.
C6_AtomicSave ==
  [][\A s \in Slots :
       /\ disk'[s].tag # "partial"
       /\ \/ disk'[s] = disk[s]
          \/ disk'[s] = NoBlob /\ pc = "idle"
          \/ /\ pc = "save" /\ slot = s /\ tmp[s] = "flushed"
             /\ disk'[s] = saveobj(mem[s].obj, s)]_vars

\* a crash point of a save: the temporary file of a slot is partly written
\* while the slot's complete old state file is the one at its final location
C6_Witness ==
  /\ pc = "save"
  /\ \E s \in Slots :
       /\ tmp[s] = "partial" /\ disk[s].tag = "pickle"
       /\ disk[s] = saveobj(lastGood[s].obj, s)
       /\ disk[s].obj # mem[s].obj

\* C7 as stated: the registry a resume loads is the one saved by the last
\* checkpoint that completed, in every slot, also when a later checkpoint
\* renamed the state files of some slots and then failed or was killed.
C7_AllOrNothing == JustLoaded => mem = lastGood

CleanRuns ==
  /\ res'.cmd = "clean" /\ ncmd' = ncmd + 1
  /\ res'.how \in {"completed", "AssertionError"}

\* the step leaves the working directory as it is and ends without error
NoOp ==
  /\ fs' = fs /\ disk' = disk /\ parfile' = parfile
  /\ res'.how = "completed" /\ res'.code = 0

\* C9 (as amended): a confirmed clean issued right after a clean that
\* completed leaves the working directory as that one left it and completes
\* without error.
C9_CleanTwice ==
  [][(res.cmd = "clean" /\ res.how = "completed" /\ CleanRuns) => NoOp]_vars

\* C9 as stated: a confirmed clean issued right after a confirmed clean leaves
\* the working directory as that one left it and completes without error.
C9_AsStated ==
  [][(res.cmd = "clean" /\ res.how \in {"completed", "AssertionError"}
        /\ CleanRuns) => NoOp]_vars

\* a second clean has completed after a first that completed and removed
\* the output directory
C9_Witness ==
  /\ res.cmd = "clean" /\ res.prev = "completed" /\ res.how = "completed"
  /\ \A n \in {LogsDir, OutputDir, LogFile, StatsDir, ScratchDir} :
       fs[n] = "none"
  /\ fs[SourceCode] = "dir"

\* the entries clean is to remove: logs, stats, scratch and the checkpoint
\* area output*
Removable == {n \in EntryNames : n[1] \in {"logs", "output", "stats", "scratch"}}

\* C10 as stated: whatever the name of the parameter file and the content of
\* the working directory, a clean, confirmed or not, completed or aborted,
\* leaves the parameter file in place with its content, and removes nothing
\* but logs, stats, scratch and output* entries.
C10_CleanKeepsParameterFile ==
  [][(res'.cmd = "clean" /\ ncmd' = ncmd + 1) =>
       /\ fs'[parname] = fs[parname] /\ parfile' = parfile
       /\ \A n \in EntryNames :
            fs'[n] # fs[n] => (fs'[n] = "none" /\ n \in Removable)]_vars

(***************************************************************************)
(* C11: restart is clean followed by submit: whenever restart comes to     *)
(* its submit call, the state of the previous run (checkpoint, logs,       *)
(* scratch) has been removed from the working directory.                   *)
(* Refuted by the code: restart calls submit whatever clean returned, and  *)
(* clean returns without removing anything when its prompt is declined.    *)
(***************************************************************************)
C11_RestartSubmitsOnCleanDirectory ==
  [][(pc \in RestartPcs /\ res'.how = "running") => ~HoldsState]_vars

(***************************************************************************)
(* C12: a submit that fails because a required path is missing, and a      *)
(* resume that fails because no checkpoint exists, leave the working       *)
(* directory, the parameter file included, exactly as it was.              *)
(* Refuted by the code: both commands edit the parameter file before the   *)
(* failing test, and submit creates its log file before it.                *)
(***************************************************************************)
C12_PreconditionErrorsMutateNothing ==
  [][(res'.how = "exit" /\ res'.why \in {"paths", "not found"})
       => WorkingDirectory' = WorkingDirectory]_vars

(***************************************************************************)
(* C13: a submit that is not declined at the precheck hands the workflow   *)
(* to the system only if every required path given with a non-null value   *)
(* exists; otherwise it prints every missing path, each once, and ends     *)
(* with no process launched, no registry constructed and no directory      *)
(* created.                                                                *)
(***************************************************************************)
C13_SubmitRequiresPaths ==
  [][(res'.cmd = "submit" /\ ncmd' = ncmd + 1 /\ res'.why # "declined")
       => /\ res'.how = "running" <=> Missing(parfile) = {}
          /\ Missing(parfile) # {}
               => /\ res'.how = "exit" /\ res'.why = "paths"
                  /\ Printed(res') = Missing(parfile)
                  /\ Len(res'.events) = Cardinality(Missing(parfile))
                  /\ pc' = "idle" /\ mem' = mem /\ state' = state
                  /\ \A n \in EntryNames \ {LogFile} : fs'[n] = fs[n]]_vars

\* a submit has ended on two missing paths and printed them
C13_Witness ==
  /\ res.cmd = "submit" /\ res.why = "paths"
  /\ Cardinality(Missing(parfile)) = 2
  /\ Cardinality(Printed(res)) = 2
  /\ mem = NoRegistry /\ pc = "idle"

(***************************************************************************)
(* C14: every command that ends with a fatal error (required paths         *)
(* missing, parameter file missing, precheck declined, no checkpoint to    *)
(* resume from) ends the process with a non-zero exit status.              *)
(* Refuted by the code: submit ends with sys.exit() on missing paths,      *)
(* which is exit status 0.                                                 *)
(***************************************************************************)
C14_FatalErrorsExitNonZero == res.how = "exit" => res.code # 0

(***************************************************************************)
(* C15: a resume that comes to the load on a working directory where the   *)
(* state file of some slot is absent ends with an error, calls no check()  *)
(* and launches nothing; the error is 'Not a SeisFlows working directory'  *)
(* naming the first absent file, unless the state file of an earlier slot  *)
(* cannot be unpickled, which is then the error.                           *)
(***************************************************************************)
C15_ResumeWithoutStateFile ==
  [][(ReachesLoad("resume") /\ StateFileMissing(disk))
       => /\ res'.how = "exit" /\ res'.code # 0
          /\ Calls(res', "check") = <<>>
          /\ pc' = "idle" /\ mem' = mem /\ state' = state
          /\ disk[NAMES[FirstBad(disk)]].tag = "absent"
               => res'.why = "not found" /\ res'.named = NAMES[FirstBad(disk)]
          /\ res'.why \in {"not found", "corrupt"}]_vars

\* C15 as stated: whatever the other state files are, the error is the
\* 'not a working directory' one and names an absent file
C15_AsStated ==
  [][(ReachesLoad("resume") /\ StateFileMissing(disk))
       => /\ res'.how = "exit"
          /\ res'.why = "not found" /\ disk[res'.named].tag = "absent"
          /\ Calls(res', "check") = <<>>
          /\ pc' = "idle"]_vars

\* a resume has ended on the second state file being absent, the first one
\* reloaded
C15_Witness ==
  /\ res.cmd = "resume" /\ res.why = "not found" /\ res.named = NAMES[2]
  /\ disk[NAMES[2]].tag = "absent"
  /\ res.events = <<<<"load", NAMES[1]>>>>
  /\ pc = "idle"

(***************************************************************************)
(* C16: when a state file cannot be unpickled, a command that comes to the *)
(* load ends with a fatal error naming the slot at which the load stopped  *)
(* (the damaged one, unless the file of an earlier slot is missing); it    *)
(* does not recover, executes no stage and leaves the state files as they  *)
(* were.                                                                   *)
(***************************************************************************)
C16_CorruptCheckpointIsFatal ==
  [][\A cmd \in LoadCmds :
       (ReachesLoad(cmd) /\ Unloadable(disk))
         => /\ res'.how = "exit" /\ res'.code # 0
            /\ res'.named = NAMES[FirstBad(disk)]
            /\ disk[res'.named].tag = "partial" <=> res'.why = "corrupt"
            /\ disk[res'.named].tag = "absent" <=> res'.why = "not found"
            /\ pc' = "idle" /\ mem' = mem /\ executed' = executed
            /\ state' = state
            /\ disk' = disk /\ tmp' = tmp]_vars

\* debug has ended on the damaged state file of the second slot
C16_Witness ==
  /\ res.cmd = "debug" /\ res.how = "exit"
  /\ res.why = "corrupt" /\ res.named = NAMES[2]
  /\ disk[NAMES[2]] = PartialBlob
  /\ mem = NoRegistry /\ pc = "idle"

(***************************************************************************)
(* C17: on every load of the registry (resume, debug, check) the calls are *)
(* first the reload of the slots in slot order, and only with every slot   *)
(* reloaded the check() of each slot, once, in slot order; a resume hands  *)
(* off only after the check() of every slot has been called.               *)
(***************************************************************************)
C17_LoadThenCheck ==
  res.cmd \in LoadCmds
    => /\ \E n \in 0..Len(NAMES), m \in 0..Len(NAMES) :
            /\ res.events = InSlotOrder("load", n) \o InSlotOrder("check", m)
            /\ m > 0 => n = Len(NAMES)
       /\ res.how \in {"running", "completed"}
            => res.events = InSlotOrder("load", Len(NAMES))
                              \o InSlotOrder("check", Len(NAMES))

\* a resume is handed off with every slot reloaded and then checked
C17_Witness ==
  /\ res.cmd = "resume" /\ res.how = "running" /\ pc = "save"
  /\ Len(Calls(res, "load")) = Len(NAMES)
  /\ Len(Calls(res, "check")) = Len(NAMES)
  /\ res.events[Len(NAMES)] = <<"load", NAMES[Len(NAMES)]>>
  /\ res.events[Len(NAMES) + 1] = <<"check", NAMES[1]>>

(***************************************************************************)
(* C18: resume restores every slot from its state file: it constructs no   *)
(* new instance, and the registry it hands to the system holds, slot by    *)
(* slot, the instance that was saved; new instances are constructed by     *)
(* submit and init only (and by configure).                                *)
(***************************************************************************)
C18_ResumeRestoresOnly ==
  /\ Calls(res, "new") # <<>> => res.cmd \in {"submit", "init", "configure"}
  /\ res.cmd \in LoadCmds => Calls(res, "new") = <<>>
  /\ (res.cmd = "resume" /\ res.how = "running")
       => /\ Calls(res, "load") = InSlotOrder("load", Len(NAMES))
          /\ \A s \in Slots :
               /\ disk[s].tag = "pickle"
               /\ mem[s] = Module(disk[s].obj)

\* a resume is handed off with the registry of the checkpoint, which is not
\* the one a new registry would be
C18_Witness ==
  /\ res.cmd = "resume" /\ res.how = "running" /\ pc = "save"
  /\ \A s \in Slots : mem[s] = Module(RunComp(s))
  /\ mem # init_seisflows

(***************************************************************************)
(* C19: the registry holds at most one instance per slot, and a registry   *)
(* that has been built or loaded holds exactly one in every slot: a        *)
(* command registers no slot twice, the registry it hands to the system    *)
(* has every slot of the fixed set registered once, and a running process  *)
(* has an instance in every slot.                                          *)
(***************************************************************************)
C19_OneInstancePerSlot ==
  /\ pc # "idle" => \A s \in Slots : mem[s].has
  /\ pc = "idle" => mem = NoRegistry
  /\ \A i, j \in 1..Len(Registered(res)) :
       Registered(res)[i][2] = Registered(res)[j][2] => i = j
  /\ res.how = "running"
       => {Registered(res)[i][2] : i \in 1..Len(Registered(res))} = Slots

\* a resumed run is executing a stage with the reloaded registry
C19_Witness ==
  /\ run.cmd = "resume" /\ pc = "stage"
  /\ \A s \in Slots : mem[s].has
  /\ mem["workflow"].obj.pos > 0

(***************************************************************************)
(* C20: when two components declare the same key with a different type or  *)
(* a different required flag, merging their requirements fails with a      *)
(* ConflictingRequirement error naming them, and no entry of one component *)
(* is written over the entry of another.                                   *)
(* Refuted by the code: configure merges with dict.update, which lets the  *)
(* last declaration win, and completes.                                    *)
(***************************************************************************)
C20_ConflictingRequirementFails ==
  (res.cmd = "configure" /\ Conflicting(res) # {})
    => /\ res.how = "exit" /\ res.why = "ConflictingRequirement"
       /\ Calls(res, "writes") = <<>>

(***************************************************************************)
(* C21: validation is complete and exact: when init validates the          *)
(* registry against the parameter file, it reports exactly the required    *)
(* keys that are absent and have no default and the keys of another type,  *)
(* all of them in one pass.                                                *)
(* Refuted by the code: init calls validate() of each component in turn    *)
(* and reads no result, so the problems of the components after the first  *)
(* invalid one (or all of them) are not reported.                          *)
(***************************************************************************)
C21_ValidationCompleteAndExact ==
  (res.cmd = "init" /\ res.why \in {"validate", "validated"})
    => Reported(res) = Problems

(***************************************************************************)
(* C26: init constructs the registry and writes the checkpoint and never   *)
(* hands off to the stage driver nor executes a stage; after an init that  *)
(* succeeds the state is Initialized and the cursor is at the start of the *)
(* flow.                                                                    *)
(***************************************************************************)
C26_InitNeverRunsAStage ==
  [][InitStep =>
       /\ pc' = "idle" /\ executed' = executed /\ run' = run /\ cur' = cur
       /\ res'.how = "completed" =>
            /\ \A i \in 1..Len(NAMES) : res'.events[i] = <<"new", NAMES[i]>>
            /\ \A s \in Slots : disk'[s] = saveobj(NewComp, s)
            /\ state' = "Initialized"
            /\ cur' = 0 /\ executed' = <<>>]_vars

C26_Witness ==
  /\ res.cmd = "init" /\ res.how = "completed" /\ state = "Initialized"
  /\ \A s \in Slots : disk[s].tag = "pickle"
  /\ pc = "idle" /\ cur = 0 /\ executed = <<>>

(***************************************************************************)
(* C27: when the validation of the registered components fails (init with  *)
(* the check flag), the state is not Initialized by that init and no       *)
(* checkpoint of that init is on disk.                                     *)
(* Refuted by the code: workflow.checkpoint() runs before the validation.  *)
(***************************************************************************)
C27_NoCheckpointWhenInvalid ==
  [][(InitStep /\ res'.why = "validate") =>
       (disk' = disk /\ state' # "Initialized")]_vars

C23_AsStated ==
  \A a \in rendered :
    /\ HeadersInSlotOrder(a[3])
    /\ \A n \in 1..Len(NAMES) :
         /\ SameItems(Section(a[3], n), manifest[NAMES[n]])
         /\ ByKey(Section(a[3], n))
    /\ OnePathsSection(a[3], a[2])

(***************************************************************************)
(* C23: the rendered template has the parameter keys of every component    *)
(* with their defaults, ordered by component in slot order and within a    *)
(* component in the order it declares them, followed by a single PATHS     *)
(* section with every declared path key once.                              *)
(***************************************************************************)
C23_TemplateInDeclarationOrder ==
  \A a \in rendered :
    /\ HeadersInSlotOrder(a[3])
    /\ \A n \in 1..Len(NAMES) : Section(a[3], n) = manifest[NAMES[n]]
    /\ OnePathsSection(a[3], a[2])

C23_Witness ==
  /\ res.cmd = "configure" /\ res.how = "completed"
  /\ \E a \in rendered :
       /\ \E s \in Slots : a[2][s] # NoDecl
       /\ \E n \in 1..Len(NAMES) :
            Len(Section(a[3], n)) >= 2 /\ ~ByKey(Section(a[3], n))

(***************************************************************************)
(* C24: when the registered RESUME_FROM or STOP_AFTER, from the parameter  *)
(* file or from an override of submit or resume, names no stage of the     *)
(* flow, the command is rejected and executes no stage; the driver never   *)
(* runs with a bound that names no stage.                                  *)
(***************************************************************************)
C24_BoundsNameStages ==
  [][/\ (HandoffStep /\ NamesNoStage(parfile')) =>
          /\ res'.how = "exit" /\ res'.code # 0 /\ pc' = "idle"
          /\ executed' = executed /\ state' # "Running"
     /\ pc' # "idle" =>
          /\ ~NamesNoStage(parfile')
          /\ run'.start \in Stages /\ run'.stop \in {0} \cup Stages]_vars

C24_Witness ==
  /\ res.cmd \in {"submit", "resume"} /\ res.why = "InvalidStage"
  /\ NamesNoStage(parfile) /\ pc = "idle" /\ executed = <<>>

(***************************************************************************)
(* C25 as stated: submit hands off from the start of the flow, or from the *)
(* stage RESUME_FROM names in the parameter file when submit is invoked.   *)
(* Refuted by the code: submit empties RESUME_FROM before it registers the *)
(* parameters.                                                             *)
(***************************************************************************)
C25_AsStated ==
  [][(HandoffStep /\ res'.cmd = "submit" /\ res'.how = "running") =>
       run'.start = IF parfile.RESUME_FROM > 0 THEN parfile.RESUME_FROM
                    ELSE 1]_vars

(***************************************************************************)
(* C25: submit hands off from the start of the flow whatever RESUME_FROM   *)
(* the parameter file names when it is invoked: it empties RESUME_FROM in  *)
(* the file first.                                                         *)
(***************************************************************************)
C25_SubmitStartsAtTheFirstStage ==
  [][(HandoffStep /\ res'.cmd = "submit" /\ res'.how = "running") =>
       (run'.start = 1 /\ cur' = 0 /\ parfile'.RESUME_FROM = 0)]_vars

C25_Witness ==
  /\ res.cmd = "submit" /\ res.how = "running" /\ Calls(res, "par") # <<>>
  /\ run.start = 1 /\ parfile.RESUME_FROM = 0

(***************************************************************************)
(* C28: when the parameter file exists, setup is run without the overwrite *)
(* flag and the operator answers the prompt with anything but y, the       *)
(* parameter file is left as it was.                                       *)
(* Refuted by the code: the template is copied into the working directory  *)
(* whatever the answer, over a parameter file of the default name.         *)
(***************************************************************************)
C28_DeclinedSetupKeepsTheFile ==
  [][(SetupStep /\ parfile.exists /\ res'.why = "asked"
        /\ res'.named # "y") =>
       (parfile' = parfile /\ text' = text)]_vars

(***************************************************************************)
(* C29 as stated: at most one stage function is executing against a        *)
(* working directory in every reachable state, also when two resume        *)
(* commands are issued against it.                                         *)
(* Refuted by the code: resume takes no lock, and a second invocation      *)
(* loads the same state files and runs its own driver.                     *)
(***************************************************************************)
C29_AsStated == ~(pc = "stage" /\ second.pc = "stage")

(***************************************************************************)
(* C29: within one invocation the stages execute strictly sequentially: a  *)
(* process starts a stage only when its previous stage has returned and    *)
(* the checkpoint after it is complete, and the stage it starts is the     *)
(* next of the flow. Two invocations are not kept apart.                   *)
(***************************************************************************)
C29_SequentialWithinOneInvocation ==
  [][/\ (pc' = "stage" /\ executed' # executed) =>
          /\ pc = "next" /\ slot = "" /\ saved = Slots
          /\ cur' = cur + 1 /\ executed' = Append(executed, cur')
     /\ (second'.pc = "stage" /\ second' # second) =>
          (second.pc = "next" /\ second'.cur = second.cur + 1)]_vars

C29_Witness ==
  /\ pc = "stage" /\ Len(executed) >= 2
  /\ second.pc = "stage" /\ second.n >= 2

(***************************************************************************)
(* C30: rotate_ne_traces_to_rt returns only when every task it submitted   *)
(* has finished: once it has returned, a future was made for every trace   *)
(* and none is pending or running, whatever the number of traces and the   *)
(* order in which the workers take and end them.                           *)
(***************************************************************************)
C30_RotateWaitsForAllTasks ==
  pool.pc = "returned" =>
    /\ Len(pool.futures) = pool.n
    /\ \A i \in 1..pool.n : pool.futures[i] \notin {"pending", "running"}

C30_Witness ==
  /\ pool.pc = "returned" /\ pool.n = MaxTasks /\ pool.workers < pool.n
  /\ \E i \in 1..pool.n : pool.futures[i] = "done"

(***************************************************************************)
(* C31: when a rotation task that rotate_ne_traces_to_rt submitted raises, *)
(* the stage function fails too: it never returns normally with a future   *)
(* that holds an exception.                                                *)
(* Refuted by the code: wait(futures) returns the futures without raising  *)
(* and no result() is called, so the exception of a task is never read.    *)
(***************************************************************************)
C31_FailedTaskFailsTheStage ==
  pool.pc = "returned" =>
    \A i \in 1..Len(pool.futures) : pool.futures[i] # "failed"

(***************************************************************************)
(* C32: when submit or resume runs without force on a PRECHECK that is not *)
(* empty, it goes on only if the operator answers exactly y; on any other  *)
(* answer the process ends with status -1 (255) with nothing registered,   *)
(* no log file made, no state file loaded and nothing handed to the        *)
(* system. With force or an empty PRECHECK the command is never declined.  *)
(***************************************************************************)
C32_PrecheckGate ==
  [][HandoffStep =>
       IF ~precheck.force /\ precheck.PRECHECK # <<>>
            /\ precheck.answer # "y"
       THEN /\ res'.how = "exit" /\ res'.code = 255 /\ pc' = "idle"
            /\ res'.events = <<>> /\ fs' = fs /\ disk' = disk
            /\ mem' = mem /\ run' = run /\ state' = state
       ELSE res'.code # 255]_vars

C32_Witness ==
  /\ res.cmd \in {"submit", "resume"} /\ res.code = 255
  /\ ~precheck.force /\ precheck.PRECHECK # <<>> /\ precheck.answer = "Y"
  /\ fs[LogFile] = "none" /\ pc = "idle"

(***************************************************************************)
(* C33: par with a value changes only the value of the first line that is  *)
(* not a comment and whose key is the parameter, which may be typed in     *)
(* either case: that line keeps its indentation and key, and every other   *)
(* line, the later lines of the same key included, stays as it was. par    *)
(* without a value leaves the file as it was, and so does par on a key the *)
(* file does not hold, which ends with the error that it was not found.    *)
(***************************************************************************)
C33_ParChangesOneValue ==
  [][(ncmd' = ncmd + 1 /\ res'.cmd = "par") =>
       LET m == {i \in 1..Len(text) :
                   /\ text[i][1] \notin {"header", "doc"}
                   /\ text[i][2] = res'.named}
           set == {e \in {res'.events[k] : k \in 1..Len(res'.events)} :
                    e[1] = "set"}
       IN /\ Len(text') = Len(text) /\ parfile' = parfile /\ fs' = fs
          /\ \A i \in 1..Len(text) :
               \/ text'[i] = text[i]
               \/ /\ i \in m /\ \A j \in m : i <= j
                  /\ text'[i][1] = text[i][1] /\ text'[i][2] = text[i][2]
                  /\ \E e \in set : text'[i][3] = e[3]
          /\ set = {} => text' = text
          /\ m = {} => /\ res'.how = "exit" /\ res'.code # 0
                       /\ res'.why = "parameter not found"
          /\ (set # {} /\ m # {}) =>
               \E i \in m : \E e \in set : text'[i][3] = e[3]]_vars

C33_Witness ==
  /\ res.cmd = "par" /\ res.named = "NT"
  /\ res.events = <<<<"set", "NT", 2>>>>
  /\ \E i, j \in 1..Len(text) :
       /\ i < j /\ text[i] = <<"", "NT", 2>> /\ text[j] = <<"", "NT", 1>>
       /\ \E k \in 1..(i - 1) : text[k] = <<"doc", "NT", 0>>

(***************************************************************************)
(* C34, as stated: whenever configure ends with an error raised while the  *)
(* template is written, the parameter file holds exactly the content it    *)
(* had before configure started.                                           *)
(***************************************************************************)
C34_AsStated ==
  [][(ncmd' = ncmd + 1 /\ res'.cmd = "configure" /\ res'.how = "exit")
       => text' = text]_vars

(***************************************************************************)
(* C34, amended: when a write of configure raises an exception that        *)
(* derives from Exception, the parameter file is put back to exactly the   *)
(* content it had before configure started, the temporary copy stays in    *)
(* place with that content and the process exits with an error; when       *)
(* configure completes, the temporary copy is removed.                     *)
(***************************************************************************)
C34_ConfigureReinstates ==
  [][(ncmd' = ncmd + 1 /\ res'.cmd = "configure") =>
       /\ res'.why = "exception" =>
            /\ text' = text /\ parfile' = parfile /\ fs' = fs
            /\ res'.how = "exit" /\ res'.code # 0
            /\ backup'.exists /\ backup'.lines = text
       /\ res'.how = "completed" => ~backup'.exists]_vars

C34_Witness ==
  /\ res.cmd = "configure" /\ res.why = "exception" /\ ncmd = 2
  /\ text # <<>> /\ backup.exists /\ backup.lines = text
  /\ \E r \in rendered : r[1] = <<>> /\ r[3] = text

(***************************************************************************)
(* C35: a configure that completes only appends: the lines the parameter   *)
(* file had are a prefix of the lines it has afterwards, unchanged, the    *)
(* lines of the template keep their values, and what is appended is the    *)
(* generated sections, never nothing; so every further configure appends   *)
(* the sections once more and the file after two is not the file after     *)
(* one.                                                                    *)
(***************************************************************************)
C35_ConfigureAppends ==
  [][(ncmd' = ncmd + 1 /\ res'.cmd = "configure"
        /\ res'.how = "completed") =>
       /\ IsPrefix(text, text') /\ Len(text') > Len(text)
       /\ \E r \in rendered' :
            /\ r[1] = text /\ r[4] = ncmd
            /\ Len(text') = Len(text) + Len(r[3])
            /\ \A i \in 1..Len(r[3]) : text'[Len(text) + i] = r[3][i]
       /\ \A k \in {"RESUME_FROM", "STOP_AFTER"} :
            parfile[k] # NoLine => parfile'[k] = parfile[k]
       /\ parfile'.PATHS = parfile.PATHS /\ parfile'.exists]_vars

C35_Witness ==
  /\ res.cmd = "configure" /\ res.how = "completed" /\ ncmd = 2
  /\ \E r1, r2 \in rendered :
       /\ r1[1] = <<>> /\ r1[4] = 0 /\ r2[1] = r1[3] /\ r2[4] = 1
       /\ r2[3] = r1[3] /\ r1[3] # <<>>
       /\ Len(text) = 2 * Len(r1[3])
       /\ \A i \in 1..Len(r1[3]) :
            text[i] = r1[3][i] /\ text[Len(r1[3]) + i] = r1[3][i]

C37_SubmitNeedsResumeFromLine ==
  [][(/\ \/ ncmd' = ncmd + 1 /\ res'.cmd = "submit"
         \/ pc \in RestartPcs /\ res' # res
      /\ parfile.exists /\ parfile.RESUME_FROM = NoLine) =>
       /\ res'.how = "exit" /\ res'.why = "parameter not found"
       /\ res'.code # 0 /\ res'.events = <<>> /\ pc' = "idle"
       /\ fs' = fs /\ parfile' = parfile /\ mem' = mem /\ run' = run
       /\ state' = state /\ disk' = disk]_vars

C37_Witness ==
  /\ res.cmd = "restart" /\ res.why = "parameter not found" /\ pc = "idle"
  /\ parfile = BlankFile /\ fs[LogFile] = "none" /\ fs[LogsDir] = "none"
  /\ run = NoRun

(***************************************************************************)
(* C38, as stated: a clean without --force whose prompt is answered with   *)
(* anything but y leaves the working directory as it found it; a clean     *)
(* with --force or the answer y removes every entry that logs, output*,    *)
(* stats or scratch match; and no clean removes a symbolic link.           *)
(***************************************************************************)
C38_AsStated ==
  [][(ncmd' = ncmd + 1 /\ res'.cmd = "clean") =>
       /\ IF precheck.force \/ precheck.answer = "y"
          THEN \A n \in Removable : fs'[n] = "none"
          ELSE fs' = fs
       /\ \A n \in EntryNames : fs[n] = "link" => fs'[n] = "link"]_vars

(***************************************************************************)
(* C38, amended: a clean without --force whose prompt is answered with     *)
(* anything but y leaves the working directory as it found it; a clean     *)
(* with --force or the answer y removes the entries that logs, output*,    *)
(* stats and scratch match, in that order, up to the first that is a       *)
(* symbolic link or has parameters.yaml in its name: there it ends with an *)
(* AssertionError and leaves that entry and all it had not yet removed;    *)
(* when it completes, every matching entry is gone. No clean removes a     *)
(* symbolic link or an entry that matches none of the four.                *)
(***************************************************************************)
C38_CleanRemovesOnlyOnYes ==
  [][(ncmd' = ncmd + 1 /\ res'.cmd = "clean") =>
       /\ IF precheck.force \/ precheck.answer = "y"
          THEN /\ res'.how \in {"completed", "AssertionError"}
               /\ res'.how = "completed" =>
                    \A n \in Removable : fs'[n] = "none"
               /\ res'.how = "AssertionError" =>
                    \E n \in Removable :
                      /\ fs[n] = "link" \/ HasParametersYaml(n)
                      /\ fs[n] # "none" /\ fs'[n] = fs[n]
          ELSE /\ fs' = fs /\ res'.how = "declined" /\ disk' = disk
               /\ parfile' = parfile
       /\ \A n \in EntryNames :
            (fs[n] = "link" \/ n \notin Removable) => fs'[n] = fs[n]]_vars

C38_Witness ==
  /\ res.cmd = "clean" /\ res.how = "AssertionError"
  /\ ~precheck.force /\ precheck.answer = "y"
  /\ fs[ScratchDir] = "link" /\ fs[LogsDir] = "none"
  /\ fs[OutputDir] = "none" /\ fs[SourceCode] = "dir"

(***************************************************************************)
(* C39: check of the Specfem3D solver accepts exactly when the check of    *)
(* the base class passes and NT, DT, F0 and FORMAT are all in PAR with     *)
(* FORMAT su or SU, and when it does not accept for keys of its own, it    *)
(* reports every key that is missing or wrong, not only the first.         *)
(* Refuted by the code: each test raises at once, so with two keys missing *)
(* the exception names one of them.                                        *)
(***************************************************************************)
C39_CheckReportsEveryKey ==
  solver.check.how # "none" =>
    LET offending ==
          ({CheckKeys[i] : i \in 1..Len(CheckKeys)} \ solver.keys)
          \cup (IF "FORMAT" \in solver.keys
                     /\ solver.FORMAT \notin {"su", "SU"}
                 THEN {"FORMAT"} ELSE {})
    IN /\ solver.check.how = "accepted"
            <=> (solver.base /\ offending = {})
       /\ (solver.base /\ offending # {})
            => solver.check.reported = offending

(***************************************************************************)
(* C40: every executable that forward launches finds SIMULATION_TYPE 1 and *)
(* SAVE_FORWARD .true. in the Par_file, and every executable that adjoint  *)
(* launches finds SIMULATION_TYPE 3, SAVE_FORWARD .false. and SEM linked   *)
(* to traces/adj, whatever the Par_file and SEM were when the operation    *)
(* began and whichever operations ran or failed before it.                 *)
(***************************************************************************)
C40_ModeSetBeforeLaunch ==
  \A i \in 1..Len(solver.calls) :
    LET c == solver.calls[i]
    IN /\ c[1] = "forward" => (c[3] = "1" /\ c[4] = ".true.")
       /\ c[1] = "adjoint" =>
            (c[3] = "3" /\ c[4] = ".false." /\ c[5] = "traces/adj")

C40_Witness ==
  /\ solver.op = "" /\ Len(solver.calls) = 4
  /\ solver.calls[1][1] = "adjoint" /\ solver.calls[2][1] = "forward"
  /\ solver.calls[3][2] = "bin/xspecfem3D"
  /\ solver.calls[4] =
       <<"adjoint", "bin/xspecfem3D", "3", ".false.", "traces/adj">>

====
